---- MODULE Spec2Model ----
(***************************************************************************)
(* PaSGAL: local alignment of reads to a sequence DAG.                     *)
(*                                                                         *)
(*   SpecScalar  the scalar pipeline of align.hpp (alignToDAGLocal):       *)
(*               phase 1 on both strands, strand selection, left-most      *)
(*               reachable vertex, slab recomputation, traceback, cigar.   *)
(*   SpecVec     the vector pipeline of align_vectorized.hpp: read         *)
(*               batching, the forward kernel, its wrapper, the reverse    *)
(*               kernel and its wrapper, run by one worker over all        *)
(*               batches.                                                  *)
(*                                                                         *)
(* Vertices carry one character each, so the global column offset of a     *)
(* vertex is its id.  Strings are sequences of one-character strings; the  *)
(* code's 0-based read[i] is rd[i+1] here.                                 *)
(***************************************************************************)
EXTENDS Integers, Sequences, FiniteSets, TLC

(***************************************************************************)
(* Bounds of the model                                                     *)
(***************************************************************************)
\* exhaustive family: every DAG with at most MaxV vertices
MaxV == 3
\* reads aligned to the exhaustive family have at most MaxSmallLen characters
MaxSmallLen == 3
\* reads aligned to the catalogue graphs have at most MaxLen characters
MaxLen == 5

(***************************************************************************)
(* SCORE (base_types.hpp): linear costs, all non-negative                  *)
(***************************************************************************)
match == 1
mismatch == 1
ins == 1
del == 1

(***************************************************************************)
(* Helpers                                                                 *)
(***************************************************************************)
Max(a, b) == IF a >= b THEN a ELSE b

SetMax(S) == CHOOSE x \in S : \A y \in S : y <= x
SetMin(S) == CHOOSE x \in S : \A y \in S : x <= y

RECURSIVE SortedSeq(_)
SortedSeq(S) == IF S = {} THEN <<>>
                ELSE LET m == SetMin(S) IN <<m>> \o SortedSeq(S \ {m})

RECURSIVE StringsUpTo(_, _)
StringsUpTo(A, n) ==
  IF n = 0 THEN {<<>>}
  ELSE LET S == StringsUpTo(A, n - 1)
       IN S \cup {Append(s, c) : s \in {t \in S : Len(t) = n - 1}, c \in A}

\* std::ceil(a * 1.0 / b) for a >= 0, b > 0
CeilDiv(a, b) == (a + b - 1) \div b

\* the index of the row block at hand, not of the one before it
PrevIdxSame(i) == i % 2

\* size_t arithmetic of (i-1) % 2 : at i = 0 the index wraps to 2^64-1, which is
\* odd; 2 divides 2^64, so this is the modulus of the mathematical i-1
PrevIdx(i) == (i - 1) % 2

\* the difference kept in an unsigned byte
UInt8(x) == x % 256

\* conversion to int8_t
Int8(x) == ((x + 128) % 256) - 128

(***************************************************************************)
(* Graph: CSR container, topologically sorted, one character per vertex    *)
(***************************************************************************)
Vertices(g) == 0 .. (g.numVertices - 1)

\* in-neighbours of v in CSR order (ascending ids)
adjcny_in(g, v) == SortedSeq({e[1] : e \in {d \in g.edges : d[2] = v}})

\* out-neighbours of v in CSR order (ascending ids)
adjcny_out(g, v) == SortedSeq({e[2] : e \in {d \in g.edges : d[1] = v}})

\* vertices from which v is reached by a path of at most d edges
RECURSIVE BackReach(_, _, _)
BackReach(g, S, d) ==
  IF d = 0 THEN S
  ELSE LET N == S \cup {e[1] : e \in {x \in g.edges : x[2] \in S}}
       IN IF N = S THEN S ELSE BackReach(g, N, d - 1)

computeLeftMostReachableVertex(g, v, maxHops) == SetMin(BackReach(g, {v}, maxHops))

\* number of characters of the vertices a .. b
totalRefLength(a, b) == b - a + 1

AllEdges(n) == {<<u, v>> : u \in 0 .. (n - 1), v \in 0 .. (n - 1)} \cap
               {e \in (0 .. (n - 1)) \X (0 .. (n - 1)) : e[1] < e[2]}

\* Exchanging A and T in the graph and in the read exchanges them in the reverse
\* complement too and changes no comparison of characters, so vertex 0 carries A.
SmallGraphs ==
  UNION {{[numVertices |-> n, vertex_label |-> lab, edges |-> E] :
            lab \in {f \in [0 .. (n - 1) -> {"A", "T"}] : f[0] = "A"},
            E \in SUBSET AllEdges(n)} :
         n \in 1 .. MaxV}

Chain(s) == [numVertices |-> Len(s),
             vertex_label |-> [v \in 0 .. (Len(s) - 1) |-> s[v + 1]],
             edges |-> {<<v, v + 1>> : v \in 0 .. (Len(s) - 2)}]

IsChain(g) == g.edges = {<<v, v + 1>> : v \in 0 .. (g.numVertices - 2)}

ChainString(g) == [x \in 1 .. g.numVertices |-> g.vertex_label[x - 1]]

\* larger graphs where gaps and mismatches lie inside an optimum alignment
CatalogueGraphs ==
  { Chain(<<"A", "A", "C", "T", "T">>),
    Chain(<<"A", "A", "T", "T">>),
    Chain(<<"A", "C", "G", "T", "A">>),
    \* bubble A -> {C | G} -> T with a tail
    [numVertices |-> 5,
     vertex_label |-> (0 :> "A" @@ 1 :> "C" @@ 2 :> "G" @@ 3 :> "T" @@ 4 :> "A"),
     edges |-> {<<0, 1>>, <<0, 2>>, <<1, 3>>, <<2, 3>>, <<3, 4>>}],
    \* two components interleaved in the topological order, and a skip edge
    [numVertices |-> 6,
     vertex_label |-> (0 :> "A" @@ 1 :> "A" @@ 2 :> "C" @@ 3 :> "A" @@ 4 :> "T" @@ 5 :> "T"),
     edges |-> {<<0, 2>>, <<1, 3>>, <<3, 4>>, <<4, 5>>, <<2, 4>>}],
    \* long chain: the slab is cut by the path-length bound
    Chain(<<"T", "A", "C", "A", "A", "T", "A">>) }

(***************************************************************************)
(* seqUtils (utils.hpp)                                                    *)
(***************************************************************************)
Complement(c) == CASE c = "A" -> "T" [] c = "T" -> "A"
                   [] c = "C" -> "G" [] c = "G" -> "C" [] OTHER -> c

reverseComplement(s) == [x \in 1 .. Len(s) |-> Complement(s[Len(s) + 1 - x])]

\* every edit as a run of its own
cigarNoCompact(s) == [x \in 1 .. Len(s) |-> <<1, s[x]>>]

\* run-length encoding of the edit string, as <<count, op>> pairs
RECURSIVE cigarCompact(_)
cigarCompact(s) ==
  IF Len(s) = 0 THEN <<>>
  ELSE LET rest == cigarCompact(Tail(s))
       IN IF Len(rest) > 0 /\ rest[1][2] = s[1]
          THEN <<(<<rest[1][1] + 1, s[1]>>)>> \o Tail(rest)
          ELSE <<(<<1, s[1]>>)>> \o rest

OpScore(op) == CASE op = "=" -> match [] op = "X" -> -1 * mismatch
                 [] op = "I" -> -1 * ins [] op = "D" -> -1 * del

RECURSIVE cigarScore(_)
cigarScore(c) == IF Len(c) = 0 THEN 0
                 ELSE c[1][1] * OpScore(c[1][2]) + cigarScore(Tail(c))


(***************************************************************************)
(* State                                                                   *)
(***************************************************************************)
VARIABLES
  graph,               \* the reference graph
  query,               \* reads[readno], as given
  read,                \* the local 'read' (replaced by its reverse complement)
  read_revComp,
  pc,                  \* position in alignToDAGLocal
  i,                   \* row loop counter of phase 1 and phase 3
  matrix,              \* the two rolling rows
  bestFwd,             \* BestScoreInfo of the read; 'best' refers to it
  bestRev,             \* BestScoreInfo of the reverse complement
  leftMostReachable,
  reducedWidth,
  j0,
  reducedHeight,
  finalRow,
  completeMatrixLog,   \* vertical differences, int8_t
  currentRowScores,
  row,
  col,
  gpos,                \* vertex of the graphIterRev of phase 4
  cigar,               \* edit string while walking, compacted at the end
  walk,                \* history: the cells <<row, vertex>> the walk stood on
  failed,              \* the assertion that failed, or "none"
  \* ---- vector pipeline (align_vectorized.hpp) ----
  readSet,             \* input reads of the forward class
  precision,           \* bits of ScoreType, the template argument of both classes
  P1,                  \* members of Phase1_Vectorized after construction
  P1R,                 \* members of Phase1_Rev_Vectorized after construction
  vpc,                 \* position in the vector pipeline
  batch_i,             \* batch loop counter i of the kernel
  row_j,               \* row-block loop counter j
  vertex_k,            \* vertex loop counter k
  nearbyColumns,       \* per-worker buffers ...
  fartherColumns,
  lastBatchRow,
  cellOf,              \* history: the cell each slot of the three buffers holds
  readCharsInt,
  bestScores512,       \* per-batch registers
  bestRows512,
  bestCols512,
  fwdBestRows512,      \* reverse kernel: forward endpoints of the batch
  fwdBestCols512,
  bestScores,          \* kernel outputs, one register per batch
  bestRows,
  bestCols,
  outputBestScoreVector

svars == <<graph, query, read, read_revComp, pc, i, matrix, bestFwd, bestRev,
           leftMostReachable, reducedWidth, j0, reducedHeight, finalRow,
           completeMatrixLog, currentRowScores, row, col, gpos, cigar, walk,
           failed>>

\* the variables only the scalar pipeline uses
scalar_only == <<query, read, read_revComp, pc, i, matrix, bestFwd, bestRev,
                 leftMostReachable, reducedWidth, j0, reducedHeight, finalRow,
                 completeMatrixLog, currentRowScores, row, col, gpos, cigar, walk>>

vvars == <<readSet, precision, P1, P1R, vpc, batch_i, row_j, vertex_k, nearbyColumns,
           fartherColumns, lastBatchRow, cellOf, readCharsInt, bestScores512, bestRows512,
           bestCols512, fwdBestRows512, fwdBestCols512, bestScores, bestRows, bestCols,
           outputBestScoreVector>>

\* ---- the read loop of alignToDAGLocal under OpenMP (align.hpp) ----
VARIABLES
  reads,               \* the reads of the call
  todo,                \* per thread: the iterations of the loop it still has to run
  opc,                 \* per thread: position in the loop body
  local,               \* per thread: readno and best of the iteration it runs, lines printed
  critical,            \* the thread inside the critical region, or -1
  stdout               \* the lines written to std::cout, in order

ovars == <<reads, todo, opc, local, critical, stdout>>

\* the read loop is not part of a run of the other specifications
OmpIdle ==
  /\ reads = <<>> /\ todo = <<>> /\ opc = <<>> /\ local = <<>>
  /\ critical = -1 /\ stdout = <<>>

\* ---- the batch loop of the forward kernel under OpenMP ----
VARIABLES
  nextBatch,           \* the iteration the dynamic schedule hands out next
  wpc,                 \* per worker: position in the parallel region
  wbatch,              \* per worker: the batch i it runs
  wstate,              \* per worker: its buffers and the registers of its batch
  taken,               \* history: per batch, the workers that were handed it
  written,              \* history: per batch, the workers that wrote element i
  slotWrites           \* history: per read id, the writes of the wrapper to its slot

pvars == <<nextBatch, wpc, wbatch, wstate, taken, written, slotWrites>>

\* the parallel batch loop is not part of a run of the other specifications
ParIdle ==
  /\ nextBatch = 0 /\ wpc = <<>> /\ wbatch = <<>> /\ wstate = <<>>
  /\ taken = <<>> /\ written = <<>> /\ slotWrites = <<>>

\* ---- graphLoader (graphLoad.hpp) ----
VARIABLES
  file,                \* the graph file: format, accessibility, content
  NDEBUG,              \* the build: TRUE when assert and verify are compiled out
  lpc,                 \* position in loadFromVG / loadFromTxt
  diGraph,             \* the CSR_container being filled
  edgeVector,
  currentLine,          \* row of the text file, or chunk of the VG stream
  exitCode             \* -1 while the process runs

lvars == <<file, NDEBUG, lpc, diGraph, edgeVector, currentLine, exitCode>>

\* the loader is not part of a run of the other specifications
LoadIdle ==
  /\ file = <<>> /\ NDEBUG = FALSE /\ lpc = "idle" /\ diGraph = <<>>
  /\ edgeVector = <<>> /\ currentLine = 0 /\ exitCode = -1

\* the variables of the specifications that stand beside the two pipelines
xvars == <<ovars, pvars, lvars>>

vars == <<svars, vvars, xvars>>

ZeroRow(w) == [x \in 0 .. (w - 1) |-> 0]

\* BestScoreInfo(): only the score is set by the constructor
BestScoreInfo == [score |-> 0, vid |-> -1, vertexSeqOffset |-> -1,
                  refColumn |-> -1, qryRow |-> -1, strand |-> "?"]

\* 'best' is a reference to bestFwd
best == bestFwd

(***************************************************************************)
(* Phase 1 (scalar): alignToDAGLocal_Phase1_Score                          *)
(***************************************************************************)
\* the cell without the deletion edit
Phase1_CellNoDeletion(g, rd, r, j, mat) ==
  LET fromInsertion == mat[PrevIdx(r)][j] - ins
      preceedingOffsets == adjcny_in(g, j)
      matchScore == IF g.vertex_label[j] = rd[r + 1] THEN match ELSE -1 * mismatch
      fromMatch == SetMax({matchScore} \cup
                     {mat[PrevIdx(r)][preceedingOffsets[x]] + matchScore :
                        x \in 1 .. Len(preceedingOffsets)})
  IN Max(Max(fromInsertion, fromMatch), 0)

\* the value of cell (r, j), from the rolling rows
Phase1_Cell(g, rd, r, j, mat) ==
  LET fromInsertion == mat[PrevIdx(r)][j] - ins
      preceedingOffsets == adjcny_in(g, j)
      matchScore == IF g.vertex_label[j] = rd[r + 1] THEN match ELSE -1 * mismatch
      fromMatch == SetMax({matchScore} \cup
                     {mat[PrevIdx(r)][preceedingOffsets[x]] + matchScore :
                        x \in 1 .. Len(preceedingOffsets)})
      fromDeletion == SetMax({-1} \cup
                     {mat[r % 2][preceedingOffsets[x]] - del :
                        x \in 1 .. Len(preceedingOffsets)})
  IN Max(Max(fromInsertion, fromMatch), Max(fromDeletion, 0))

\* an update that a cell equal to the best score observed till now takes as well
BestUpdateTie(b, v) == b.score <= v

\* does the cell replace the best score observed till now
BestUpdate(b, v) == b.score < v

\* the inner loop over the vertices, for row r
RECURSIVE Phase1_Row(_, _, _, _, _, _)
Phase1_Row(g, rd, r, j, mat, b) ==
  IF j = g.numVertices THEN [matrix |-> mat, best |-> b]
  ELSE LET v == Phase1_Cell(g, rd, r, j, mat)
           mat2 == [mat EXCEPT ![r % 2][j] = v]
           b2 == IF BestUpdate(b, v)
                 THEN [b EXCEPT !.score = v, !.vid = j, !.vertexSeqOffset = 0,
                                !.refColumn = j, !.qryRow = r]
                 ELSE b
       IN Phase1_Row(g, rd, r, j + 1, mat2, b2)

UNCH_P34 == UNCHANGED <<vvars, xvars, leftMostReachable, reducedWidth, j0, reducedHeight, finalRow,
                        completeMatrixLog, currentRowScores, row, col, gpos, cigar,
                        walk, failed>>

\* one row of the pass over the read
P1FwdRow ==
  /\ pc = "p1fwd" /\ i < Len(read)
  /\ LET res == Phase1_Row(graph, read, i, 0, matrix, bestFwd)
     IN /\ matrix' = res.matrix
        /\ bestFwd' = res.best
  /\ i' = i + 1
  /\ UNCHANGED <<graph, query, read, read_revComp, pc, bestRev>>
  /\ UNCH_P34

P1FwdDone ==
  /\ pc = "p1fwd" /\ i = Len(read)
  /\ pc' = "p1rev"
  /\ i' = 0
  /\ matrix' = [x \in 0 .. 1 |-> ZeroRow(graph.numVertices)]
  /\ UNCHANGED <<graph, query, read, read_revComp, bestFwd, bestRev>>
  /\ UNCH_P34

\* one row of the pass over the reverse complement
P1RevRow ==
  /\ pc = "p1rev" /\ i < Len(read_revComp)
  /\ LET res == Phase1_Row(graph, read_revComp, i, 0, matrix, bestRev)
     IN /\ matrix' = res.matrix
        /\ bestRev' = res.best
  /\ i' = i + 1
  /\ UNCHANGED <<graph, query, read, read_revComp, pc, bestFwd>>
  /\ UNCH_P34

P1RevDone ==
  /\ pc = "p1rev" /\ i = Len(read_revComp)
  /\ pc' = "strand"
  /\ UNCHANGED <<graph, query, read, read_revComp, i, matrix, bestFwd, bestRev>>
  /\ UNCH_P34

(***************************************************************************)
(* Strand selection                                                        *)
(***************************************************************************)
KeepFwdTie(f, r) == f.score >= r.score
KeepFwd(f, r) == f.score > r.score

\* A BestScoreInfo that phase 1 never updated (score 0) holds an unspecified
\* position; the pipeline goes on with some cell of the matrix.
Located(b, rd) ==
  IF b.score > 0 THEN {b}
  ELSE {[b EXCEPT !.vid = v, !.refColumn = v, !.vertexSeqOffset = 0, !.qryRow = r] :
          v \in Vertices(graph), r \in 0 .. (Len(rd) - 1)}

SelectStrand ==
  /\ pc = "strand"
  /\ IF KeepFwd(bestFwd, bestRev)
     THEN /\ \E b \in Located(bestFwd, read) : bestFwd' = [b EXCEPT !.strand = "+"]
          /\ read' = read
     ELSE /\ \E b \in Located(bestRev, read_revComp) : bestFwd' = [b EXCEPT !.strand = "-"]
          /\ read' = read_revComp
  /\ pc' = "phase2"
  /\ UNCHANGED <<graph, query, read_revComp, i, matrix, bestRev>>
  /\ UNCH_P34

(***************************************************************************)
(* Phase 2: left-most reachable vertex                                     *)
(***************************************************************************)
maxDistanceOneHop(rd) == 1
maxDistance(rd) == Len(rd) + CeilDiv(Len(rd) * match, del)

Phase2 ==
  /\ pc = "phase2"
  /\ leftMostReachable' = computeLeftMostReachableVertex(graph, best.vid, maxDistance(read))
  /\ reducedWidth' = totalRefLength(leftMostReachable', best.vid)
  /\ reducedHeight' = best.qryRow + 1
  /\ finalRow' = ZeroRow(reducedWidth')
  /\ completeMatrixLog' = [r \in 0 .. (reducedHeight' - 1) |-> ZeroRow(reducedWidth')]
  /\ matrix' = [x \in 0 .. 1 |-> ZeroRow(reducedWidth')]
  /\ j0' = leftMostReachable'
  /\ i' = 0
  /\ pc' = "phase3"
  /\ UNCHANGED <<graph, query, read, read_revComp, bestFwd, bestRev,
                 currentRowScores, row, col, gpos, cigar, walk, failed, vvars, xvars>>


(***************************************************************************)
(* Phase 3: recompute the slab, keeping vertical differences               *)
(***************************************************************************)
\* is the preceeding offset k inside the slab
InSlab(k, c0) == k >= c0

\* the value of slab cell (r, j); column j is vertex c0 + j
Phase3_Cell(g, rd, r, j, mat, c0) ==
  LET fromInsertion == mat[PrevIdx(r)][j] - ins
      preceedingOffsets == adjcny_in(g, c0 + j)
      inSlab == {x \in 1 .. Len(preceedingOffsets) : InSlab(preceedingOffsets[x], c0)}
      matchScore == IF g.vertex_label[c0 + j] = rd[r + 1] THEN match ELSE -1 * mismatch
      fromMatch == SetMax({matchScore} \cup
                     {mat[PrevIdx(r)][preceedingOffsets[x] - c0] + matchScore : x \in inSlab})
      fromDeletion == SetMax({-1} \cup
                     {mat[r % 2][preceedingOffsets[x] - c0] - del : x \in inSlab})
  IN Max(Max(fromInsertion, fromMatch), Max(fromDeletion, 0))

RECURSIVE Phase3_Row(_, _, _, _, _, _, _, _)
Phase3_Row(g, rd, r, j, w, mat, log, c0) ==
  IF j = w THEN [matrix |-> mat, log |-> log]
  ELSE LET v == Phase3_Cell(g, rd, r, j, mat, c0)
           mat2 == [mat EXCEPT ![r % 2][j] = v]
           log2 == [log EXCEPT ![r][j] = Int8(v - mat[PrevIdx(r)][j])]
       IN Phase3_Row(g, rd, r, j + 1, w, mat2, log2, c0)

Phase3Row ==
  /\ pc = "phase3" /\ i < reducedHeight
  /\ LET res == Phase3_Row(graph, read, i, 0, reducedWidth, matrix, completeMatrixLog, j0)
     IN /\ matrix' = res.matrix
        /\ completeMatrixLog' = res.log
        /\ finalRow' = IF i = reducedHeight - 1 THEN res.matrix[i % 2] ELSE finalRow
  /\ i' = i + 1
  /\ UNCHANGED <<graph, query, read, read_revComp, pc, bestFwd, bestRev,
                 leftMostReachable, reducedWidth, j0, reducedHeight,
                 currentRowScores, row, col, gpos, cigar, walk, failed, vvars, xvars>>

bestScoreReComputed == SetMax({finalRow[x] : x \in DOMAIN finalRow})

\* the two assertions after the recomputation, then the set-up of the walk
Phase3Check ==
  /\ pc = "phase3" /\ i = reducedHeight
  /\ IF bestScoreReComputed # best.score
     THEN /\ failed' = "recomputed score"
          /\ pc' = "abort"
          /\ UNCHANGED <<currentRowScores, row, col, gpos, cigar, walk>>
     ELSE IF bestScoreReComputed # finalRow[best.refColumn - j0]
     THEN /\ failed' = "recomputed column"
          /\ pc' = "abort"
          /\ UNCHANGED <<currentRowScores, row, col, gpos, cigar, walk>>
     ELSE /\ gpos' = best.vid
          /\ currentRowScores' = finalRow
          /\ col' = best.vid - j0
          /\ row' = best.qryRow
          /\ cigar' = <<>>
          /\ walk' = <<(<<best.qryRow, best.vid>>)>>
          /\ pc' = "phase4"
          /\ UNCHANGED failed
  /\ UNCHANGED <<graph, query, read, read_revComp, i, matrix, bestFwd, bestRev,
                 leftMostReachable, reducedWidth, j0, reducedHeight, finalRow,
                 completeMatrixLog, vvars, xvars>>

(***************************************************************************)
(* Phase 4: the walk from the best cell                                    *)
(***************************************************************************)
aboveRowScores == [x \in 0 .. (reducedWidth - 1) |->
                     currentRowScores[x] - completeMatrixLog[row][x]]

\* first preceeding offset k of the slab with the largest rowScores[k-c0] + delta,
\* if that is above the initial value; acc is <<value, position>>
RECURSIVE ArgBest(_, _, _, _, _, _)
ArgBest(offs, x, rowScores, delta, acc, c0) ==
  IF x > Len(offs) THEN acc
  ELSE LET k == offs[x]
       IN IF k >= c0 /\ acc[1] < rowScores[k - c0] + delta
          THEN ArgBest(offs, x + 1, rowScores, delta, <<rowScores[k - c0] + delta, k>>, c0)
          ELSE ArgBest(offs, x + 1, rowScores, delta, acc, c0)

T_matchScore == IF graph.vertex_label[gpos] = read[row + 1] THEN match ELSE -1 * mismatch
T_fromInsertion == aboveRowScores[col] - ins
T_fromMatch == ArgBest(adjcny_in(graph, gpos), 1, aboveRowScores, T_matchScore,
                       <<T_matchScore, gpos>>, j0)
\* a walk that knows no deletion edit
T_fromDeletionNone == <<-1, -1>>
T_fromDeletion == ArgBest(adjcny_in(graph, gpos), 1, currentRowScores, -1 * del,
                          <<-1, -1>>, j0)

\* the deletion branch tried before the match-mismatch branch
BranchDeletionFirst == IF currentRowScores[col] = T_fromDeletion[1] THEN "D"
                       ELSE IF currentRowScores[col] = T_fromMatch[1] THEN "M"
                       ELSE "I"

\* which branch of the recurrence the walk takes at the current cell
Branch == IF currentRowScores[col] = T_fromMatch[1] THEN "M"
          ELSE IF currentRowScores[col] = T_fromDeletion[1] THEN "D"
          ELSE "I"

\* the edit character of the match-mismatch branch
MatchOpAlwaysEq(ms) == "="
MatchOp(ms) == IF ms = match THEN "=" ELSE "X"

\* the edit character of the deletion branch
DeletionOpAsInsertion == "I"
DeletionOp == "D"

UNCH_WALK == UNCHANGED <<vvars, xvars, graph, query, read, read_revComp, i, matrix, bestFwd, bestRev,
                         leftMostReachable, reducedWidth, j0, reducedHeight, finalRow,
                         completeMatrixLog>>

\* the loop condition fails, or the current cell has no score left
WalkEnd ==
  /\ pc = "phase4"
  /\ ~(col >= 0 /\ row >= 0) \/ currentRowScores[col] <= 0
  /\ pc' = "compact"
  /\ UNCHANGED <<currentRowScores, row, col, gpos, cigar, walk, failed>>
  /\ UNCH_WALK

WalkMatch ==
  /\ pc = "phase4" /\ col >= 0 /\ row >= 0 /\ currentRowScores[col] > 0
  /\ Branch = "M"
  /\ cigar' = Append(cigar, MatchOp(T_matchScore))
  /\ IF T_fromMatch[2] = gpos
     THEN \* the alignment starts from this column
          /\ pc' = "compact"
          /\ UNCHANGED <<currentRowScores, row, col, gpos, walk>>
     ELSE /\ gpos' = T_fromMatch[2]
          /\ row' = row - 1
          /\ currentRowScores' = aboveRowScores
          /\ col' = gpos' - j0
          /\ walk' = Append(walk, <<row', gpos'>>)
          /\ UNCHANGED pc
  /\ UNCHANGED failed
  /\ UNCH_WALK

WalkDeletion ==
  /\ pc = "phase4" /\ col >= 0 /\ row >= 0 /\ currentRowScores[col] > 0
  /\ Branch = "D"
  /\ cigar' = Append(cigar, DeletionOp)
  /\ gpos' = T_fromDeletion[2]
  /\ col' = gpos' - j0
  /\ walk' = Append(walk, <<row, gpos'>>)
  /\ UNCHANGED <<pc, currentRowScores, row, failed>>
  /\ UNCH_WALK

\* the insertion branch without the shift to the row above
WalkInsertionSameRow ==
  /\ pc = "phase4" /\ col >= 0 /\ row >= 0 /\ currentRowScores[col] > 0
  /\ Branch = "I"
  /\ IF currentRowScores[col] # T_fromInsertion
     THEN /\ failed' = "insertion branch"
          /\ pc' = "abort"
          /\ UNCHANGED <<currentRowScores, row, col, gpos, cigar, walk>>
     ELSE /\ cigar' = Append(cigar, "I")
          /\ row' = row
          /\ currentRowScores' = currentRowScores
          /\ walk' = Append(walk, <<row', gpos>>)
          /\ UNCHANGED <<pc, col, gpos, failed>>
  /\ UNCH_WALK

WalkInsertion ==
  /\ pc = "phase4" /\ col >= 0 /\ row >= 0 /\ currentRowScores[col] > 0
  /\ Branch = "I"
  /\ IF currentRowScores[col] # T_fromInsertion
     THEN /\ failed' = "insertion branch"
          /\ pc' = "abort"
          /\ UNCHANGED <<currentRowScores, row, col, gpos, cigar, walk>>
     ELSE /\ cigar' = Append(cigar, "I")
          /\ row' = row - 1
          /\ currentRowScores' = aboveRowScores
          /\ walk' = Append(walk, <<row', gpos>>)
          /\ UNCHANGED <<pc, col, gpos, failed>>
  /\ UNCH_WALK

Reverse(s) == [x \in 1 .. Len(s) |-> s[Len(s) + 1 - x]]

\* reverse and compact the edit string, validate its score
Finish ==
  /\ pc = "compact"
  /\ cigar' = cigarCompact(Reverse(cigar))
  /\ IF cigarScore(cigar') # best.score
     THEN failed' = "cigar score" /\ pc' = "abort"
     ELSE pc' = "done" /\ UNCHANGED failed
  /\ UNCHANGED <<currentRowScores, row, col, gpos, walk>>
  /\ UNCH_WALK

(***************************************************************************)
(* Vector pipeline (align_vectorized.hpp), instantiated with               *)
(* SimdInst<int16_t>.  A register is a function from lanes to values.      *)
(***************************************************************************)
blockWidth == 8
blockHeight == 16
DUMMY == "B"

\* lanes of one register; the code has SIMD_REG_SIZE / (8 * sizeof(type)) of them
numSeqs == 2
\* most reads of one input
MaxReads == 3

Lanes == 0 .. (numSeqs - 1)

\* the largest value of ScoreType
ScoreMax == 2 ^ (precision - 1) - 1

\* conversion to SIMD::type: the sums of _mm512_add_epi8/16 wrap
SimdType(x) == IF precision = 8 THEN ((x + 128) % 256) - 128
               ELSE ((x + 32768) % 65536) - 32768

zero == [x \in Lanes |-> 0]
set1(a) == [x \in Lanes |-> a]
add(a, b) == [x \in Lanes |-> SimdType(a[x] + b[x])]
max(a, b) == [x \in Lanes |-> Max(a[x], b[x])]
cmpeq(a, b) == [x \in Lanes |-> a[x] = b[x]]
blend(k, a, b) == [x \in Lanes |-> IF k[x] THEN b[x] ELSE a[x]]
mask_set1(a, k, b) == [x \in Lanes |-> IF k[x] THEN b ELSE a[x]]

\* element-wise maximum of acc and the registers of the sequence regs
RECURSIVE MaxAll(_, _)
MaxAll(regs, acc) ==
  IF regs = <<>> THEN acc ELSE MaxAll(Tail(regs), max(acc, regs[1]))

\* std::greater on pairs (length, index)
PairGreater(a, b) == a[1] > b[1] \/ (a[1] = b[1] /\ a[2] > b[2])

RECURSIVE SortGreater(_)
SortGreater(S) ==
  IF S = {} THEN <<>>
  ELSE LET m == CHOOSE x \in S : \A y \in S \ {x} : PairGreater(x, y)
       IN <<m>> \o SortGreater(S \ {m})

\* the pairs (length, index) in decreasing order; rs[n + 1] is readSet[n]
sortReadsForLoadBalance(rs) ==
  SortGreater({<<Len(rs[n + 1]), n>> : n \in 0 .. (Len(rs) - 1)})

countReadBatches(rs) == CeilDiv(Len(rs), numSeqs)

\* rounding that also moves a multiple of blockHeight to the next one
RoundUpNext(len) == len + blockHeight - (len % blockHeight)

\* round a length up to a multiple of blockHeight (size_t arithmetic)
RoundUp(len) == len + blockHeight - 1 - ((len - 1) % blockHeight)

\* the characters pushed for the batch starting at sorted position first
SOABatch(rs, order, first) ==
  LET batchLength == RoundUp(Len(rs[order[first + 1] + 1]))
  IN [x \in 1 .. (batchLength * numSeqs) |->
        LET j == (x - 1) \div numSeqs
            k == (x - 1) % numSeqs
        IN IF first + k < Len(rs) /\ j < Len(rs[order[first + k + 1] + 1])
           THEN rs[order[first + k + 1] + 1][j + 1]
           ELSE DUMMY]

\* readSetSOA after the batches that start before sorted position first
RECURSIVE convertToSOA(_, _, _)
convertToSOA(rs, order, first) ==
  IF first <= 0 THEN <<>>
  ELSE convertToSOA(rs, order, first - numSeqs) \o SOABatch(rs, order, first - numSeqs)

\* the end of an in-edge that a class marks
from_pos(e) == e[1]
to_pos(e) == e[2]

\* the inner loop of computeLongHops at vertex v, from in-edge number x on:
\* the vertices it marks; a long edge marks its to_pos in the reverse class
\* and its from_pos in the forward class
RECURSIVE LongHopsOfVertex(_, _, _, _, _)
LongHopsOfVertex(g, reverse, v, x, marked) ==
  IF x > Len(adjcny_in(g, v)) THEN marked
  ELSE LET e == <<adjcny_in(g, v)[x], v>>
       IN LongHopsOfVertex(g, reverse, v, x + 1,
            IF to_pos(e) - from_pos(e) >= blockWidth
            THEN marked \cup {IF reverse THEN to_pos(e) ELSE from_pos(e)}
            ELSE marked)

\* the outer loop over all vertices, on a table that starts all false
LongHopsLoop(g, reverse) ==
  LET marked == UNION {LongHopsOfVertex(g, reverse, v, 1, {}) : v \in Vertices(g)}
  IN [u \in Vertices(g) |-> u \in marked]

computeLongHops(g) == LongHopsLoop(g, FALSE)

\* a reverse class that marks like the forward class
computeLongHops_RevAsFwd(g) == LongHopsLoop(g, FALSE)

computeLongHops_Rev(g) == LongHopsLoop(g, TRUE)

\* members common to both classes after the first two constructor calls
Batched(rs) ==
  LET tuples == sortReadsForLoadBalance(rs)
      order == [x \in 1 .. Len(rs) |-> tuples[x][2]]
  IN [readSet |-> rs,
      sortedReadLengths |-> [x \in 1 .. Len(rs) |-> tuples[x][1]],
      sortedReadOrder |-> order,
      readSetSOA |-> convertToSOA(rs, order, countReadBatches(rs) * numSeqs),
      readSetSOAPrefixSum |->
        [b \in 0 .. countReadBatches(rs) |-> Len(convertToSOA(rs, order, b * numSeqs))]]

Phase1_Vectorized(rs, g) ==
  [c \in DOMAIN Batched(rs) \cup {"withLongHop"} |->
     IF c = "withLongHop" THEN computeLongHops(g) ELSE Batched(rs)[c]]

Phase1_Rev_Vectorized(rs, g) ==
  [c \in DOMAIN Batched(rs) \cup {"withLongHop"} |->
     IF c = "withLongHop" THEN computeLongHops_Rev(g) ELSE Batched(rs)[c]]

\* per-read output record; the scalar pipeline's fields are left out
BestScoreInfo_Vec == [score |-> 0, refColumnEnd |-> -1, qryRowEnd |-> -1,
                      refColumnStart |-> -1, qryRowStart |-> -1]

\* length of the longest read of batch b, rounded up (int32_t arithmetic)
qryBatchLength(P, b) == RoundUp(Len(P.readSet[P.sortedReadOrder[b * numSeqs + 1] + 1]))

\* freshly allocated scratch buffers of one worker: all registers zero
NewNearbyColumns == [c \in 0 .. (blockWidth - 1) |-> [l \in 0 .. (blockHeight - 1) |-> zero]]
NewFartherColumns(P) ==
  [v \in {u \in DOMAIN P.withLongHop : P.withLongHop[u]} |->
     [l \in 0 .. (blockHeight - 1) |-> zero]]
NewLastBatchRow(g) == [s \in 0 .. 1 |-> [v \in Vertices(g) |-> zero]]

\* readCharsInt for the row block starting at row j of batch b
LoadReadChars(P, b, j) ==
  [x \in 1 .. (numSeqs * blockHeight) |->
     P.readSetSOA[P.readSetSOAPrefixSum[b] + j * numSeqs + x]]

(***************************************************************************)
(* Forward kernel: Phase1_Vectorized::alignToDAGLocal_Phase1_vectorized    *)
(***************************************************************************)
\* the stored column of neighbour p, dist vertices away from the vertex at
\* hand: one of the blockWidth nearby columns, or the farther column of p
NearOrFar(dist, p, nearby, farther) ==
  IF dist < blockWidth THEN nearby[p % blockWidth] ELSE farther[p]

\* the register of vertex v in the last row of the row block before loopJ
RowAbove(loopJ, v, last) == last[PrevIdx(loopJ)][v]

\* the three stores of a cell of vertex k: in-block row l, row block at row j
StoreNearby(nearby, k, l, x) == [nearby EXCEPT ![k % blockWidth][l] = x]
\* a kernel that keeps no column in the side store
StoreFartherNone(farther, P, k, l, x) == farther
StoreFarther(farther, P, k, l, x) ==
  IF P.withLongHop[k] THEN [farther EXCEPT ![k][l] = x] ELSE farther
StoreLast(last, j, k, x) == [last EXCEPT ![(j \div blockHeight) % 2][k] = x]

\* History of the stores: a slot holds the cell <<kernel, batch, row, vertex>>
\* it was written for, ZeroCell after the reset of lastBatchRow, and FreshCell
\* in a buffer that was allocated and never written.
ZeroCell == <<"zero", 0, -1, 0>>
FreshCell == <<"fresh", 0, -1, 0>>

FreshCells(P, g) ==
  [nearby |-> [c \in 0 .. (blockWidth - 1) |-> [l \in 0 .. (blockHeight - 1) |-> FreshCell]],
   farther |-> [v \in {u \in DOMAIN P.withLongHop : P.withLongHop[u]} |->
                  [l \in 0 .. (blockHeight - 1) |-> FreshCell]],
   last |-> [s \in 0 .. 1 |-> [v \in Vertices(g) |-> FreshCell]]]

ResetLast(h, g) == [h EXCEPT !.last = [s \in 0 .. 1 |-> [v \in Vertices(g) |-> ZeroCell]]]

\* the stores of iterations l .. n - 1 of the l loop of vertex k
RECURSIVE StoreRows(_, _, _, _, _, _, _, _)
StoreRows(h, P, kernel, b, j, k, l, n) ==
  IF l >= n
  THEN h
  ELSE StoreRows([h EXCEPT
                    !.nearby = StoreNearby(h.nearby, k, l, <<kernel, b, j + l, k>>),
                    !.farther = StoreFarther(h.farther, P, k, l, <<kernel, b, j + l, k>>)],
                 P, kernel, b, j, k, l + 1, n)

\* the whole l loop of vertex k, then the store into lastBatchRow
StoreColumn(h, P, kernel, b, j, k) ==
  LET rows == StoreRows(h, P, kernel, b, j, k, 0, blockHeight)
  IN [rows EXCEPT !.last = StoreLast(rows.last, j, k, <<kernel, b, j + blockHeight - 1, k>>)]

\* currentMax512 of the cell in row j + l of vertex k, loopJ = j / blockHeight
Fwd_currentMax512(g, k, l, loopJ, chars, nearby, farther, last) ==
  LET readChars == [x \in Lanes |-> chars[l * numSeqs + x + 1]]
      graphChar == set1(g.vertex_label[k])
      compareChar == cmpeq(readChars, graphChar)
      sub512 == blend(compareChar, set1(mismatch), set1(match))
      nbrs == adjcny_in(g, k)
      column(p) == NearOrFar(k - p, p, nearby, farther)
      substEdit(p) == IF l = 0 THEN add(RowAbove(loopJ, p, last), sub512)
                      ELSE add(column(p)[l - 1], sub512)
      delEdit(p) == add(column(p)[l], set1(del))
      insEdit == IF l = 0 THEN add(RowAbove(loopJ, k, last), set1(ins))
                 ELSE add(nearby[k % blockWidth][l - 1], set1(ins))
      edits == [m \in 1 .. (2 * Len(nbrs)) |->
                  IF m <= Len(nbrs) THEN substEdit(nbrs[m])
                  ELSE delEdit(nbrs[m - Len(nbrs)])]
  IN max(MaxAll(edits, max(zero, sub512)), insEdit)

\* the l loop of vertex k from iteration l on, then the store into lastBatchRow
RECURSIVE Fwd_Column(_, _, _, _, _, _, _)
Fwd_Column(g, P, k, j, l, chars, st) ==
  IF l = blockHeight
  THEN [st EXCEPT !.last = StoreLast(st.last, j, k, st.cur)]
  ELSE LET cur == Fwd_currentMax512(g, k, l, j \div blockHeight, chars,
                                    st.nearby, st.farther, st.last)
           bs == max(cur, st.bs)
           updated == cmpeq(cur, bs)
       IN Fwd_Column(g, P, k, j, l + 1, chars,
            [nearby |-> StoreNearby(st.nearby, k, l, cur),
             farther |-> StoreFarther(st.farther, P, k, l, cur),
             last |-> st.last,
             cur |-> cur,
             bs |-> bs,
             br |-> mask_set1(st.br, updated, SimdType(j + l)),
             bc |-> mask_set1(st.bc, updated, k)])

\* the worker's registers and buffers as one record
KernelState ==
  [nearby |-> nearbyColumns, farther |-> fartherColumns, last |-> lastBatchRow,
   cur |-> zero, bs |-> bestScores512, br |-> bestRows512, bc |-> bestCols512]

StoreKernelState(st) ==
  /\ nearbyColumns' = st.nearby
  /\ fartherColumns' = st.farther
  /\ lastBatchRow' = st.last
  /\ bestScores512' = st.bs
  /\ bestRows512' = st.br
  /\ bestCols512' = st.bc

UNCH_SCALAR == UNCHANGED <<scalar_only, xvars>>

FwdBatchBegin ==
  /\ vpc = "fwd_batch"
  /\ batch_i < countReadBatches(readSet)
  /\ bestScores512' = zero
  /\ bestRows512' = zero
  /\ bestCols512' = zero
  /\ lastBatchRow' = NewLastBatchRow(graph)
  /\ row_j' = 0
  /\ vpc' = "fwd_block"
  /\ UNCHANGED <<graph, failed, readSet, precision, P1, P1R, batch_i, vertex_k, nearbyColumns,
                 fartherColumns, readCharsInt, fwdBestRows512, fwdBestCols512,
                 bestScores, bestRows, bestCols, outputBestScoreVector>>
  /\ cellOf' = ResetLast(cellOf, graph)
  /\ UNCH_SCALAR

FwdBlockBegin ==
  /\ vpc = "fwd_block"
  /\ row_j < qryBatchLength(P1, batch_i)
  /\ readCharsInt' = LoadReadChars(P1, batch_i, row_j)
  /\ vertex_k' = 0
  /\ vpc' = "fwd_col"
  /\ UNCHANGED <<graph, failed, readSet, precision, cellOf, P1, P1R, batch_i, row_j, nearbyColumns,
                 fartherColumns, lastBatchRow, bestScores512, bestRows512, bestCols512,
                 fwdBestRows512, fwdBestCols512, bestScores, bestRows, bestCols,
                 outputBestScoreVector>>
  /\ UNCH_SCALAR

FwdColumn ==
  /\ vpc = "fwd_col"
  /\ vertex_k < graph.numVertices
  /\ StoreKernelState(Fwd_Column(graph, P1, vertex_k, row_j, 0, readCharsInt, KernelState))
  /\ vertex_k' = vertex_k + 1
  /\ UNCHANGED <<graph, failed, readSet, precision, P1, P1R, vpc, batch_i, row_j, readCharsInt,
                 fwdBestRows512, fwdBestCols512, bestScores, bestRows, bestCols,
                 outputBestScoreVector>>
  /\ cellOf' = StoreColumn(cellOf, P1, "fwd", batch_i, row_j, vertex_k)
  /\ UNCH_SCALAR

FwdBlockEnd ==
  /\ vpc = "fwd_col"
  /\ vertex_k = graph.numVertices
  /\ row_j' = row_j + blockHeight
  /\ vpc' = "fwd_block"
  /\ UNCHANGED <<graph, failed, readSet, precision, cellOf, P1, P1R, batch_i, vertex_k, nearbyColumns,
                 fartherColumns, lastBatchRow, readCharsInt, bestScores512, bestRows512,
                 bestCols512, fwdBestRows512, fwdBestCols512, bestScores, bestRows,
                 bestCols, outputBestScoreVector>>
  /\ UNCH_SCALAR

FwdBatchEnd ==
  /\ vpc = "fwd_block"
  /\ row_j >= qryBatchLength(P1, batch_i)
  /\ bestScores' = [bestScores EXCEPT ![batch_i] = bestScores512]
  /\ bestRows' = [bestRows EXCEPT ![batch_i] = bestRows512]
  /\ bestCols' = [bestCols EXCEPT ![batch_i] = bestCols512]
  /\ batch_i' = batch_i + 1
  /\ vpc' = "fwd_batch"
  /\ UNCHANGED <<graph, failed, readSet, precision, cellOf, P1, P1R, row_j, vertex_k, nearbyColumns,
                 fartherColumns, lastBatchRow, readCharsInt, bestScores512, bestRows512,
                 bestCols512, fwdBestRows512, fwdBestCols512, outputBestScoreVector>>
  /\ UNCH_SCALAR

\* the stores of the forward wrapper into the record of one read
FwdStore(rec, storeScore, storeCol, storeRow) ==
  [rec EXCEPT !.score = storeScore, !.refColumnEnd = storeCol, !.qryRowEnd = storeRow]

\* the stores of the forward wrapper, made by the reverse wrapper
RevStoreAsFwd(rec, storeCol, qryRow) ==
  [rec EXCEPT !.refColumnEnd = storeCol, !.qryRowEnd = qryRow]

\* the stores of the reverse wrapper into the record of one read
RevStore(rec, storeCol, qryRow) ==
  [rec EXCEPT !.refColumnStart = storeCol, !.qryRowStart = qryRow]

\* sorted position of read n
PositionOf(P, n) == CHOOSE x \in 0 .. (Len(P.readSet) - 1) : P.sortedReadOrder[x + 1] = n

\* alignToDAGLocal_Phase1_vectorized_wrapper after the kernel has returned; the
\* reverse class then starts with buffers of its own
FwdWrapper ==
  /\ vpc = "fwd_batch"
  /\ batch_i = countReadBatches(readSet)
  /\ outputBestScoreVector' =
       [n \in DOMAIN outputBestScoreVector |->
          LET x == PositionOf(P1, n)
              b == x \div numSeqs
              lane == x % numSeqs
          IN FwdStore(outputBestScoreVector[n], bestScores[b][lane], bestCols[b][lane],
                      bestRows[b][lane])]
  /\ bestScores' = [b \in DOMAIN bestScores |-> zero]
  /\ bestRows' = [b \in DOMAIN bestRows |-> zero]
  /\ bestCols' = [b \in DOMAIN bestCols |-> zero]
  /\ nearbyColumns' = NewNearbyColumns
  /\ fartherColumns' = NewFartherColumns(P1R)
  /\ lastBatchRow' = NewLastBatchRow(graph)
  /\ batch_i' = 0
  /\ vpc' = "rev_batch"
  /\ UNCHANGED <<graph, failed, readSet, precision, P1, P1R, row_j, vertex_k, readCharsInt,
                 bestScores512, bestRows512, bestCols512, fwdBestRows512,
                 fwdBestCols512>>
  /\ cellOf' = FreshCells(P1R, graph)
  /\ UNCH_SCALAR

(***************************************************************************)
(* Reverse kernel: Phase1_Rev_Vectorized::alignToDAGLocal_Phase1_rev_...   *)
(***************************************************************************)
Rev_currentMax512(g, k, l, loopJ, chars, nearby, farther, last) ==
  LET readChars == [x \in Lanes |-> chars[l * numSeqs + x + 1]]
      graphChar == set1(g.vertex_label[k])
      compareChar == cmpeq(readChars, graphChar)
      sub512 == blend(compareChar, set1(mismatch), set1(match))
      nbrs == adjcny_out(g, k)
      column(p) == NearOrFar(p - k, p, nearby, farther)
      substEdit(p) == IF l = 0 THEN add(RowAbove(loopJ, p, last), sub512)
                      ELSE add(column(p)[l - 1], sub512)
      delEdit(p) == add(column(p)[l], set1(del))
      insEdit == IF l = 0 THEN add(RowAbove(loopJ, k, last), set1(ins))
                 ELSE add(nearby[k % blockWidth][l - 1], set1(ins))
      edits == [m \in 1 .. (2 * Len(nbrs)) |->
                  IF m <= Len(nbrs) THEN substEdit(nbrs[m])
                  ELSE delEdit(nbrs[m - Len(nbrs)])]
  IN max(MaxAll(edits, max(zero, sub512)), insEdit)

\* the cell of the forward endpoint is overwritten after the best-score update
Boosted(cur, fwdRows, fwdCols, r, k) ==
  LET currentRow == set1(SimdType(r))
      currentCol == set1(k)
      compareCell == [x \in Lanes |-> cmpeq(fwdRows, currentRow)[x]
                                      /\ cmpeq(fwdCols, currentCol)[x]]
  IN mask_set1(cur, compareCell, SimdType(match + 1))

RECURSIVE Rev_Column(_, _, _, _, _, _, _, _, _)
Rev_Column(g, P, k, j, l, chars, fwdRows, fwdCols, st) ==
  IF l = blockHeight
  THEN [st EXCEPT !.last = StoreLast(st.last, j, k, st.cur)]
  ELSE LET cur == Rev_currentMax512(g, k, l, j \div blockHeight, chars,
                                    st.nearby, st.farther, st.last)
           bs == max(cur, st.bs)
           updated == cmpeq(cur, bs)
           stored == Boosted(cur, fwdRows, fwdCols, j + l, k)
       IN Rev_Column(g, P, k, j, l + 1, chars, fwdRows, fwdCols,
            [nearby |-> StoreNearby(st.nearby, k, l, stored),
             farther |-> StoreFarther(st.farther, P, k, l, stored),
             last |-> st.last,
             cur |-> stored,
             bs |-> bs,
             br |-> mask_set1(st.br, updated, SimdType(j + l)),
             bc |-> mask_set1(st.bc, updated, k)])

\* forward endpoints of batch b, rows counted from the end of the read
FwdBestRows(P, out, b) ==
  [x \in Lanes |->
     IF b * numSeqs + x < Len(P.readSet)
     THEN LET n == P.sortedReadOrder[b * numSeqs + x + 1]
          IN SimdType(Len(P.readSet[n + 1]) - 1 - out[n].qryRowEnd)
     ELSE 0]

FwdBestCols(P, out, b) ==
  [x \in Lanes |->
     IF b * numSeqs + x < Len(P.readSet)
     THEN out[P.sortedReadOrder[b * numSeqs + x + 1]].refColumnEnd
     ELSE 0]

RevBatchBegin ==
  /\ vpc = "rev_batch"
  /\ batch_i < countReadBatches(readSet)
  /\ fwdBestRows512' = FwdBestRows(P1R, outputBestScoreVector, batch_i)
  /\ fwdBestCols512' = FwdBestCols(P1R, outputBestScoreVector, batch_i)
  /\ bestScores512' = zero
  /\ bestRows512' = zero
  /\ bestCols512' = zero
  /\ lastBatchRow' = NewLastBatchRow(graph)
  /\ row_j' = 0
  /\ vpc' = "rev_block"
  /\ UNCHANGED <<graph, failed, readSet, precision, P1, P1R, batch_i, vertex_k, nearbyColumns,
                 fartherColumns, readCharsInt, bestScores, bestRows, bestCols,
                 outputBestScoreVector>>
  /\ cellOf' = ResetLast(cellOf, graph)
  /\ UNCH_SCALAR

RevBlockBegin ==
  /\ vpc = "rev_block"
  /\ row_j < qryBatchLength(P1R, batch_i)
  /\ readCharsInt' = LoadReadChars(P1R, batch_i, row_j)
  /\ vertex_k' = graph.numVertices - 1
  /\ vpc' = "rev_col"
  /\ UNCHANGED <<graph, failed, readSet, precision, cellOf, P1, P1R, batch_i, row_j, nearbyColumns,
                 fartherColumns, lastBatchRow, bestScores512, bestRows512, bestCols512,
                 fwdBestRows512, fwdBestCols512, bestScores, bestRows, bestCols,
                 outputBestScoreVector>>
  /\ UNCH_SCALAR

RevColumn ==
  /\ vpc = "rev_col"
  /\ vertex_k >= 0
  /\ StoreKernelState(Rev_Column(graph, P1R, vertex_k, row_j, 0, readCharsInt,
                                 fwdBestRows512, fwdBestCols512, KernelState))
  /\ vertex_k' = vertex_k - 1
  /\ UNCHANGED <<graph, failed, readSet, precision, P1, P1R, vpc, batch_i, row_j, readCharsInt,
                 fwdBestRows512, fwdBestCols512, bestScores, bestRows, bestCols,
                 outputBestScoreVector>>
  /\ cellOf' = StoreColumn(cellOf, P1R, "rev", batch_i, row_j, vertex_k)
  /\ UNCH_SCALAR

RevBlockEnd ==
  /\ vpc = "rev_col"
  /\ vertex_k < 0
  /\ row_j' = row_j + blockHeight
  /\ vpc' = "rev_block"
  /\ UNCHANGED <<graph, failed, readSet, precision, cellOf, P1, P1R, batch_i, vertex_k, nearbyColumns,
                 fartherColumns, lastBatchRow, readCharsInt, bestScores512, bestRows512,
                 bestCols512, fwdBestRows512, fwdBestCols512, bestScores, bestRows,
                 bestCols, outputBestScoreVector>>
  /\ UNCH_SCALAR

RevBatchEnd ==
  /\ vpc = "rev_block"
  /\ row_j >= qryBatchLength(P1R, batch_i)
  /\ bestScores' = [bestScores EXCEPT ![batch_i] = bestScores512]
  /\ bestRows' = [bestRows EXCEPT ![batch_i] = bestRows512]
  /\ bestCols' = [bestCols EXCEPT ![batch_i] = bestCols512]
  /\ batch_i' = batch_i + 1
  /\ vpc' = "rev_batch"
  /\ UNCHANGED <<graph, failed, readSet, precision, cellOf, P1, P1R, row_j, vertex_k, nearbyColumns,
                 fartherColumns, lastBatchRow, readCharsInt, bestScores512, bestRows512,
                 bestCols512, fwdBestRows512, fwdBestCols512, outputBestScoreVector>>
  /\ UNCH_SCALAR

\* the assertion of the reverse wrapper for the read at sorted position x
RevScoreAgrees(P, out, scores, x) ==
  out[P.sortedReadOrder[x + 1]].score = scores[x \div numSeqs][x % numSeqs] - 1

\* alignToDAGLocal_Phase1_rev_vectorized_wrapper after the kernel has returned:
\* reads are visited in sorted order, the first failing assertion aborts
RevWrapper ==
  /\ vpc = "rev_batch"
  /\ batch_i = countReadBatches(readSet)
  /\ LET bad == {x \in 0 .. (Len(readSet) - 1) :
                   ~RevScoreAgrees(P1R, outputBestScoreVector, bestScores, x)}
         stop == IF bad = {} THEN Len(readSet) ELSE SetMin(bad)
     IN /\ outputBestScoreVector' =
             [n \in DOMAIN outputBestScoreVector |->
                LET x == PositionOf(P1R, n)
                    b == x \div numSeqs
                    lane == x % numSeqs
                IN IF x < stop
                   THEN RevStore(outputBestScoreVector[n], bestCols[b][lane],
                                 Len(P1R.readSet[n + 1]) - 1 - bestRows[b][lane])
                   ELSE outputBestScoreVector[n]]
        /\ failed' = IF bad = {} THEN "none" ELSE "reverse score"
        /\ vpc' = IF bad = {} THEN "done" ELSE "abort"
  /\ UNCHANGED <<graph, readSet, precision, cellOf, P1, P1R, batch_i, row_j, vertex_k, nearbyColumns,
                 fartherColumns, lastBatchRow, readCharsInt, bestScores512, bestRows512,
                 bestCols512, fwdBestRows512, fwdBestCols512, bestScores, bestRows,
                 bestCols>>
  /\ UNCH_SCALAR

(***************************************************************************)
(* Inputs and specification of the vector pipeline                         *)
(***************************************************************************)
\* a read of blockHeight characters and one that needs a second row block
Read16 == <<"A", "C", "T", "A", "A", "C", "T", "A", "A", "C", "T", "A", "A", "C", "T", "A">>
Read17 == Append(Read16, "C")

VecReads == {<<"A">>, <<"G">>, <<"A", "C", "T">>, Read16, Read17}

VecGraphs ==
  { Chain(<<"A">>),
    Chain(<<"A", "C", "T">>),
    Chain(<<"C", "A">>),
    \* bubble A -> {C | G} -> T with a tail
    [numVertices |-> 5,
     vertex_label |-> (0 :> "A" @@ 1 :> "C" @@ 2 :> "G" @@ 3 :> "T" @@ 4 :> "A"),
     edges |-> {<<0, 1>>, <<0, 2>>, <<1, 3>>, <<2, 3>>, <<3, 4>>}],
    \* chain of ten vertices with hops of length 9, 8 and 7 into the last vertex
    [numVertices |-> 10,
     vertex_label |-> [v \in 0 .. 9 |-> <<"A", "C", "T", "A", "A", "C", "T", "A", "A", "C">>[v + 1]],
     edges |-> {<<v, v + 1>> : v \in 0 .. 8} \cup {<<0, 9>>, <<1, 9>>, <<2, 9>>}] }

ReadSets == UNION {[1 .. n -> VecReads] : n \in 1 .. MaxReads}

\* the scalar pipeline is not part of a run of the vector pipeline
ScalarIdle ==
  /\ query = <<>> /\ read = <<>> /\ read_revComp = <<>> /\ pc = "idle"
  /\ i = 0 /\ matrix = <<>> /\ bestFwd = BestScoreInfo /\ bestRev = BestScoreInfo
  /\ leftMostReachable = -1 /\ reducedWidth = 0 /\ j0 = 0 /\ reducedHeight = 0
  /\ finalRow = <<>> /\ completeMatrixLog = <<>> /\ currentRowScores = <<>>
  /\ row = -1 /\ col = -1 /\ gpos = -1 /\ cigar = <<>> /\ walk = <<>>

\* the state after the construction of both classes for ScoreType of 'bits' bits
StartVec(g, rs, bits) ==
    /\ graph = g
    /\ failed = "none"
    /\ readSet = rs
    /\ precision = bits
    /\ P1 = Phase1_Vectorized(rs, g)
    /\ P1R = Phase1_Rev_Vectorized([n \in 1 .. Len(rs) |-> Reverse(rs[n])], g)
    /\ vpc = "fwd_batch"
    /\ batch_i = 0
    /\ row_j = 0
    /\ vertex_k = 0
    /\ nearbyColumns = NewNearbyColumns
    /\ fartherColumns = NewFartherColumns(Phase1_Vectorized(rs, g))
    /\ lastBatchRow = NewLastBatchRow(g)
    /\ cellOf = FreshCells(Phase1_Vectorized(rs, g), g)
    /\ readCharsInt = [x \in 1 .. (numSeqs * blockHeight) |-> DUMMY]
    /\ bestScores512 = zero
    /\ bestRows512 = zero
    /\ bestCols512 = zero
    /\ fwdBestRows512 = zero
    /\ fwdBestCols512 = zero
    /\ bestScores = [b \in 0 .. (countReadBatches(rs) - 1) |-> zero]
    /\ bestRows = [b \in 0 .. (countReadBatches(rs) - 1) |-> zero]
    /\ bestCols = [b \in 0 .. (countReadBatches(rs) - 1) |-> zero]
    /\ outputBestScoreVector = [n \in 0 .. (Len(rs) - 1) |-> BestScoreInfo_Vec]
    /\ ScalarIdle
    /\ OmpIdle
    /\ LoadIdle

\* ScoreType = int16_t
InitVec == \E g \in VecGraphs, rs \in ReadSets : StartVec(g, rs, 16) /\ ParIdle

NextVec ==
  \/ FwdBatchBegin \/ FwdBlockBegin \/ FwdColumn \/ FwdBlockEnd \/ FwdBatchEnd
  \/ FwdWrapper
  \/ RevBatchBegin \/ RevBlockBegin \/ RevColumn \/ RevBlockEnd \/ RevBatchEnd
  \/ RevWrapper

SpecVec == InitVec /\ [][NextVec]_vars

\* The forward pass with ScoreType = int8_t, on reads and chains long enough
\* for sums to leave the range of int8_t.
Int8Max == 127

LongRead(n) == [x \in 1 .. n |-> "A"]

VecGraphs8 == {Chain(LongRead(1)), Chain(LongRead(Int8Max + 1))}

ReadSets8 == {<<LongRead(n)>> : n \in {Int8Max + 1 - blockHeight, Int8Max + 1}}

InitVec8 == \E g \in VecGraphs8, rs \in ReadSets8 : StartVec(g, rs, 8) /\ ParIdle

NextVec8 ==
  \/ FwdBatchBegin \/ FwdBlockBegin \/ FwdColumn \/ FwdBlockEnd \/ FwdBatchEnd
  \/ FwdWrapper

SpecVec8 == InitVec8 /\ [][NextVec8]_vars

\* the vector pipeline is not part of a run of the scalar pipeline
VectorIdle ==
  /\ readSet = <<>> /\ precision = 16 /\ P1 = <<>> /\ P1R = <<>> /\ vpc = "idle"
  /\ batch_i = 0 /\ row_j = 0 /\ vertex_k = 0
  /\ nearbyColumns = <<>> /\ fartherColumns = <<>> /\ lastBatchRow = <<>>
  /\ cellOf = <<>>
  /\ readCharsInt = <<>>
  /\ bestScores512 = <<>> /\ bestRows512 = <<>> /\ bestCols512 = <<>>
  /\ fwdBestRows512 = <<>> /\ fwdBestCols512 = <<>>
  /\ bestScores = <<>> /\ bestRows = <<>> /\ bestCols = <<>>
  /\ outputBestScoreVector = <<>>

(***************************************************************************)
(* Inputs and specification of the scalar pipeline                         *)
(***************************************************************************)
ScalarInputs ==
  {<<g, r>> : g \in SmallGraphs,
              r \in StringsUpTo({"A", "T"}, MaxSmallLen) \ {<<>>}} \cup
  {<<g, r>> : g \in CatalogueGraphs,
              r \in StringsUpTo({"A", "C", "T"}, MaxLen) \ {<<>>}}

\* the pipeline before the first row of phase 1, for the input <<graph, read>>
StartScalar(inp) ==
  /\ graph = inp[1]
  /\ query = inp[2]
  /\ read = inp[2]
  /\ read_revComp = reverseComplement(inp[2])
  /\ pc = "p1fwd"
  /\ i = 0
  /\ matrix = [x \in 0 .. 1 |-> ZeroRow(inp[1].numVertices)]
  /\ bestFwd = BestScoreInfo
  /\ bestRev = BestScoreInfo
  /\ leftMostReachable = -1
  /\ reducedWidth = 0
  /\ j0 = 0
  /\ reducedHeight = 0
  /\ finalRow = <<>>
  /\ completeMatrixLog = <<>>
  /\ currentRowScores = <<>>
  /\ row = -1
  /\ col = -1
  /\ gpos = -1
  /\ cigar = <<>>
  /\ walk = <<>>
  /\ failed = "none"
  /\ VectorIdle
  /\ OmpIdle
  /\ ParIdle
  /\ LoadIdle

InitScalar == \E inp \in ScalarInputs : StartScalar(inp)

NextScalar ==
  \/ P1FwdRow \/ P1FwdDone \/ P1RevRow \/ P1RevDone
  \/ SelectStrand
  \/ Phase2
  \/ Phase3Row \/ Phase3Check
  \/ WalkEnd \/ WalkMatch \/ WalkDeletion \/ WalkInsertion
  \/ Finish

SpecScalar == InitScalar /\ [][NextScalar]_vars


(***************************************************************************)
(* Reference recurrences the claims are stated against                     *)
(***************************************************************************)
\* The recurrence over the DAG: rows are sequences over the vertices 0 .. n-1,
\* stored at index v+1; 'above' is row r-1 (all zeros for r = 0).
RefSub(g, rd, r, v) == IF rd[r + 1] = g.vertex_label[v] THEN match ELSE -1 * mismatch

RECURSIVE RefRow(_, _, _, _, _)
RefRow(g, rd, r, above, cur) ==
  LET v == Len(cur)
  IN IF v = g.numVertices THEN cur
     ELSE LET sub == RefSub(g, rd, r, v)
              P == {e[1] : e \in {d \in g.edges : d[2] = v}}
              c == SetMax({0, sub, above[v + 1] - ins}
                          \cup {above[p + 1] + sub : p \in P}
                          \cup {cur[p + 1] - del : p \in P})
          IN RefRow(g, rd, r, above, Append(cur, c))

RECURSIVE RefRows(_, _, _)
RefRows(g, rd, rows) ==
  LET r == Len(rows)
  IN IF r = Len(rd) THEN rows
     ELSE LET above == IF r = 0 THEN [x \in 1 .. g.numVertices |-> 0] ELSE rows[r]
          IN RefRows(g, rd, Append(rows, RefRow(g, rd, r, above, <<>>)))

\* RefMatrix(g, rd)[r+1][v+1] is the value of cell (r, v)
RefMatrix(g, rd) == RefRows(g, rd, <<>>)

RefBest(g, rd) ==
  LET M == RefMatrix(g, rd)
  IN SetMax({0} \cup {M[r][v] : r \in 1 .. Len(rd), v \in 1 .. g.numVertices})

\* Classical Smith-Waterman of string s (query) against string t (reference)
RECURSIVE SWRow(_, _, _, _, _)
SWRow(s, t, a, above, cur) ==
  LET b == Len(cur) + 1
  IN IF b > Len(t) THEN cur
     ELSE LET sc == IF s[a] = t[b] THEN match ELSE -1 * mismatch
              diag == IF b = 1 THEN 0 ELSE above[b - 1]
              left == IF b = 1 THEN 0 ELSE cur[b - 1]
              h == SetMax({0, diag + sc, above[b] - ins, left - del})
          IN SWRow(s, t, a, above, Append(cur, h))

RECURSIVE SWRows(_, _, _)
SWRows(s, t, rows) ==
  LET a == Len(rows) + 1
  IN IF a > Len(s) THEN rows
     ELSE LET above == IF a = 1 THEN [x \in 1 .. Len(t) |-> 0] ELSE rows[a - 1]
          IN SWRows(s, t, Append(rows, SWRow(s, t, a, above, <<>>)))

SmithWaterman(s, t) ==
  LET H == SWRows(s, t, <<>>)
  IN SetMax({0} \cup {H[a][b] : a \in 1 .. Len(s), b \in 1 .. Len(t)})

\* the compacted cigar, run by run, as an edit string
RECURSIVE Expand(_)
Expand(c) == IF Len(c) = 0 THEN <<>>
             ELSE [x \in 1 .. c[1][1] |-> c[1][2]] \o Expand(Tail(c))

CountOps(e, ops) == Cardinality({x \in 1 .. Len(e) : e[x] \in ops})

\* the edit string e, read from position a of s and b of t, is a transcript:
\* '=' pairs equal characters, 'X' unequal ones, no position is outside
RECURSIVE IsTranscript(_, _, _, _, _, _)
IsTranscript(e, x, s, t, a, b) ==
  IF x > Len(e) THEN TRUE
  ELSE LET inS == a >= 1 /\ a <= Len(s)
           inT == b >= 1 /\ b <= Len(t)
       IN CASE e[x] = "=" -> inS /\ inT /\ s[a] = t[b]
                             /\ IsTranscript(e, x + 1, s, t, a + 1, b + 1)
            [] e[x] = "X" -> inS /\ inT /\ s[a] # t[b]
                             /\ IsTranscript(e, x + 1, s, t, a + 1, b + 1)
            [] e[x] = "I" -> inS /\ IsTranscript(e, x + 1, s, t, a + 1, b)
            [] e[x] = "D" -> inT /\ IsTranscript(e, x + 1, s, t, a, b + 1)
            [] OTHER -> FALSE

\* the cigar is an edit transcript of the strings that ends at (qryRow, refColumn)
CigarOnChain ==
  LET e == Expand(cigar)
      a == (best.qryRow + 1) - CountOps(e, {"=", "X", "I"}) + 1
      b == (best.refColumn + 1) - CountOps(e, {"=", "X", "D"}) + 1
  IN IsTranscript(e, 1, read, ChainString(graph), a, b)

(***************************************************************************)
(* Claims on the scalar pipeline                                           *)
(***************************************************************************)
\* C2 (as stated): on a chain, the best score of the pipeline for a read is the
\* Smith-Waterman score of that read against the chain's string, and the cigar
\* is an optimum transcript of the two strings.
C2_ChainEqualsSWOfRead ==
  (pc = "done" /\ IsChain(graph)) =>
     /\ best.score = SmithWaterman(query, ChainString(graph))
     /\ cigarScore(cigar) = SmithWaterman(query, ChainString(graph))

\* C2 (amended): on a chain, the best score is the larger of the Smith-Waterman
\* scores of the read and of its reverse complement against the chain's string,
\* and the cigar is an edit transcript of the reported strand's string and the
\* chain's string whose score is that optimum.
C2_ChainEqualsSWOfStrands ==
  /\ IsChain(graph) => failed = "none"
  /\ (pc = "done" /\ IsChain(graph)) =>
     LET t == ChainString(graph)
         sw == Max(SmithWaterman(query, t), SmithWaterman(reverseComplement(query), t))
     IN /\ best.score = sw
        /\ read = (IF best.strand = "+" THEN query ELSE reverseComplement(query))
        /\ SmithWaterman(read, t) = sw
        /\ cigarScore(cigar) = sw
        /\ CigarOnChain

C2_Witness ==
  /\ pc = "done" /\ IsChain(graph)
  /\ best.score >= 3
  /\ \E x \in 1 .. Len(cigar) : cigar[x][2] \in {"X", "I", "D"}

C6_CigarScoreLaw ==
  /\ pc = "compact" => cigarScore(cigarCompact(Reverse(cigar))) = best.score
  /\ pc = "done" => cigarScore(cigar) = best.score
  /\ failed # "cigar score"

C6_Witness ==
  /\ pc = "done" /\ best.score >= 3
  /\ \E x \in 1 .. Len(cigar) : cigar[x][2] = "X"
  /\ Expand(cigar) # [x \in 1 .. Len(Expand(cigar)) |-> "="]

\* C7: the query-consuming operations of the cigar are as many as the rows from
\* the start row to the end row of the walk, and the reference-consuming
\* operations as many as the vertices of the path the walk went along.
C7_CigarLengthLaw ==
  /\ (pc = "done" /\ Len(cigar) = 0) => (best.score = 0 /\ Len(walk) = 1)
  /\ (pc = "done" /\ Len(cigar) > 0) =>
     LET e == Expand(cigar)
     IN /\ CountOps(e, {"=", "X", "I"}) = best.qryRow - row + 1
        /\ walk[1] = <<best.qryRow, best.vid>>
        /\ walk[Len(walk)] = <<row, gpos>>
        /\ CountOps(e, {"=", "X", "D"}) = Cardinality({walk[x][2] : x \in 1 .. Len(walk)})
        /\ \A x \in 1 .. (Len(walk) - 1) :
              \/ walk[x + 1][2] = walk[x][2]
              \/ <<walk[x + 1][2], walk[x][2]>> \in graph.edges

C7_Witness ==
  /\ pc = "done"
  /\ \E x \in 1 .. Len(cigar) : cigar[x][2] = "I"
  /\ best.qryRow - row + 1 > Cardinality({walk[x][2] : x \in 1 .. Len(walk)})

\* C10: strand '-' is reported, and the reverse complement traced back, exactly
\* when the best score of the reverse complement is at least the best score of
\* the read; the reported score is the larger of the two.
C10_StrandLaw ==
  (pc \in {"phase2", "done"}) =>
     LET f == RefBest(graph, query)
         r == RefBest(graph, reverseComplement(query))
     IN /\ best.strand \in {"+", "-"}
        /\ (best.strand = "-") <=> (r >= f)
        /\ (best.strand = "-") => read = reverseComplement(query)
        /\ (best.strand = "+") => read = query
        /\ best.score = Max(f, r)

\* both strands score alike and above zero, and '-' is reported
C10_Witness ==
  /\ pc = "done" /\ best.strand = "-"
  /\ best.score > 0
  /\ bestRev.score = RefBest(graph, query)

(***************************************************************************)
(* Claims about the vector pipeline                                        *)
(***************************************************************************)
\* the padded characters of one lane of batch b
LaneString(P, b, lane) ==
  [r \in 1 .. qryBatchLength(P, b) |->
     P.readSetSOA[P.readSetSOAPrefixSum[b] + (r - 1) * numSeqs + lane + 1]]

\* the column the forward kernel has just stored for vertex vertex_k - 1
ColumnStored(l, lane) == nearbyColumns[(vertex_k - 1) % blockWidth][l][lane]

\* C1: every cell the forward kernel computes is the value of the recurrence
\* max(0, sub, pred(r-1)+sub, pred(r)-del, cell(r-1,v)-ins) on the lane's
\* characters, and the best score of the lane is the maximum of these cells.
C1_KernelCellIsRecurrence ==
  /\ (vpc = "fwd_col" /\ vertex_k > 0) =>
       \A lane \in Lanes :
         LET M == RefMatrix(graph, LaneString(P1, batch_i, lane))
         IN \A l \in 0 .. (blockHeight - 1) :
              ColumnStored(l, lane) = M[row_j + l + 1][vertex_k]
  /\ (vpc = "fwd_batch" /\ batch_i > 0) =>
       \A lane \in Lanes :
         bestScores[batch_i - 1][lane] = RefBest(graph, LaneString(P1, batch_i - 1, lane))

\* C3: when the reverse kernel has returned, the reverse best score of every
\* read is its forward best score plus 1, so the wrapper's assertion holds.
C3_ReverseIsForwardPlusOne ==
  (vpc = "rev_batch" /\ batch_i = countReadBatches(readSet)) =>
     \A x \in 0 .. (Len(readSet) - 1) :
       RevScoreAgrees(P1R, outputBestScoreVector, bestScores, x)

\* cells where an alignment of score M[r+1][v+1] that ends in cell (r, v) starts
RECURSIVE Starts(_, _, _, _, _)
Starts(g, rd, M, r, v) ==
  LET c == M[r + 1][v + 1]
      sub == RefSub(g, rd, r, v)
      P == {e[1] : e \in {d \in g.edges : d[2] = v}}
  IN IF c <= 0 THEN {}
     ELSE (IF c = sub THEN {<<r, v>>} ELSE {})
          \cup UNION {Starts(g, rd, M, r - 1, p) :
                        p \in {q \in P : r > 0 /\ M[r][q + 1] + sub = c}}
          \cup UNION {Starts(g, rd, M, r, p) :
                        p \in {q \in P : M[r + 1][q + 1] - del = c}}
          \cup (IF r > 0 /\ M[r][v + 1] - ins = c
                THEN Starts(g, rd, M, r - 1, v) ELSE {})

\* C4: the begin position the reverse wrapper writes for a read is the start of
\* an optimum-score alignment that ends at the read's forward endpoint.
C4_BeginOfOptimumAtEndpoint ==
  \A n \in DOMAIN outputBestScoreVector :
    LET o == outputBestScoreVector[n]
        rd == readSet[n + 1]
        M == RefMatrix(graph, rd)
    IN (vpc \in {"done", "abort"} /\ o.refColumnStart # -1) =>
         /\ o.qryRowEnd \in 0 .. (Len(rd) - 1)
         /\ o.refColumnEnd \in Vertices(graph)
         /\ M[o.qryRowEnd + 1][o.refColumnEnd + 1] = RefBest(graph, rd)
         /\ RefBest(graph, rd) > 0 =>
              <<o.qryRowStart, o.refColumnStart>>
                \in Starts(graph, rd, M, o.qryRowEnd, o.refColumnEnd)

\* C8 (scalar pass): every cell of the two phase 1 rows is at least 0 and at most
\* the running best score, which is at most min(|V|, |read|) * match.
C8_ScalarScoreBounds ==
  (pc = "p1fwd") =>
     /\ \A x \in DOMAIN matrix : \A y \in DOMAIN matrix[x] :
          0 <= matrix[x][y] /\ matrix[x][y] <= bestFwd.score
     /\ bestFwd.score <= SetMin({graph.numVertices, Len(read)}) * match

\* C8: in the forward vector pass every cell is at least 0 and at most the best
\* score, and the reported best score is at most min(|V|, |read|) * match.
C8_VectorScoreBounds ==
  /\ (vpc = "fwd_col" /\ vertex_k > 0) =>
       \A lane \in Lanes, l \in 0 .. (blockHeight - 1) :
         0 <= ColumnStored(l, lane) /\ ColumnStored(l, lane) <= bestScores512[lane]
  /\ (vpc \in {"rev_batch", "rev_block", "rev_col", "done", "abort"}) =>
       \A n \in DOMAIN outputBestScoreVector :
         /\ 0 <= outputBestScoreVector[n].score
         /\ outputBestScoreVector[n].score
              <= SetMin({graph.numVertices, Len(readSet[n + 1])}) * match

\* C9: two reads of one input with the same characters get the same score and
\* the same endpoint from the forward pass, whatever batch and lane they are in.
C9_SameReadSameResult ==
  (vpc \in {"rev_batch", "rev_block", "rev_col", "done", "abort"}) =>
     \A n, m \in DOMAIN outputBestScoreVector :
       readSet[n + 1] = readSet[m + 1] =>
         /\ outputBestScoreVector[n].score = outputBestScoreVector[m].score
         /\ outputBestScoreVector[n].refColumnEnd = outputBestScoreVector[m].refColumnEnd
         /\ outputBestScoreVector[n].qryRowEnd = outputBestScoreVector[m].qryRowEnd

\* the cells of read rd (rows 0 .. |rd|-1) that attain the maximum of the recurrence
MaxCells(g, rd) ==
  LET M == RefMatrix(g, rd)
      top == RefBest(g, rd)
  IN {c \in (0 .. (Len(rd) - 1)) \X Vertices(g) : M[c[1] + 1][c[2] + 1] = top}

\* C11: the endpoint the forward pass reports for a read is a cell that attains
\* the maximum score of the read, and among the cells that attain it the one
\* with the largest vertex id and then the largest row.
C11_ForwardTiePolicy ==
  (vpc \in {"rev_batch", "done"}) =>
     \A n \in 1 .. Len(readSet) :
        LET o == outputBestScoreVector[n - 1]
            S == MaxCells(graph, readSet[n])
        IN /\ <<o.qryRowEnd, o.refColumnEnd>> \in S
           /\ \A c \in S : \/ c[2] < o.refColumnEnd
                           \/ c[2] = o.refColumnEnd /\ c[1] <= o.qryRowEnd

\* C12: when a cell of a read's recurrence exceeds the largest value of
\* ScoreType, or a cell was stored from a sum that left the range of ScoreType
\* (it is below the row above plus the insertion term the kernel adds), the
\* pass has signalled ScoreOverflow.
C12_OverflowSignalled ==
  /\ (vpc = "fwd_col" /\ vertex_k > 0) =>
       \A lane \in Lanes, l \in 1 .. (blockHeight - 1) :
          ColumnStored(l, lane) < ColumnStored(l - 1, lane) + ins
             => failed = "ScoreOverflow"
  /\ (vpc = "rev_batch") =>
       \A n \in 1 .. Len(readSet) :
          RefBest(graph, readSet[n]) > ScoreMax => failed = "ScoreOverflow"

(***************************************************************************)
(* The read loop of alignToDAGLocal: '#pragma omp parallel for' over the   *)
(* reads, the results printed inside '#pragma omp critical'                *)
(***************************************************************************)
NumThreads == 2

Threads == 0 .. (NumThreads - 1)

\* alignToDAGLocal_Phase1_Score: the rows of one read, from the first
RECURSIVE Phase1_Score(_, _, _, _, _)
Phase1_Score(g, rd, r, mat, b) ==
  IF r = Len(rd) THEN b
  ELSE LET res == Phase1_Row(g, rd, r, 0, mat, b)
       IN Phase1_Score(g, rd, r + 1, res.matrix, res.best)

alignToDAGLocal_Phase1_Score(rd, g) ==
  Phase1_Score(g, rd, 0, [x \in 0 .. 1 |-> ZeroRow(g.numVertices)], BestScoreInfo)

\* the body of the loop up to the critical region: both passes and the strand
\* (what follows works on locals of the iteration and is left to SpecScalar)
LoopBody(rd, g) ==
  LET f == alignToDAGLocal_Phase1_Score(rd, g)
      r == alignToDAGLocal_Phase1_Score(reverseComplement(rd), g)
  IN IF KeepFwd(f, r) THEN [score |-> f.score, strand |-> "+"]
     ELSE [score |-> r.score, strand |-> "-"]

UNCH_OMP == UNCHANGED <<svars, vvars, pvars, lvars, reads>>

\* a thread runs the next of its iterations up to the critical region
OmpAlign(t) ==
  /\ opc[t] = "loop" /\ todo[t] # {}
  /\ LET n == SetMin(todo[t])
     IN local' = [local EXCEPT ![t] = [readno |-> n, best |-> LoopBody(reads[n + 1], graph),
                                       printed |-> 0]]
  /\ opc' = [opc EXCEPT ![t] = "wait"]
  /\ UNCHANGED <<todo, critical, stdout>>
  /\ UNCH_OMP

\* a region that any number of threads may be inside
OmpEnterUnguarded(t) ==
  /\ opc[t] = "wait"
  /\ critical' = t
  /\ opc' = [opc EXCEPT ![t] = "critical"]
  /\ UNCHANGED <<todo, local, stdout>>
  /\ UNCH_OMP

\* only one thread at a time is inside the critical region
OmpEnterCritical(t) ==
  /\ opc[t] = "wait" /\ critical = -1
  /\ critical' = t
  /\ opc' = [opc EXCEPT ![t] = "critical"]
  /\ UNCHANGED <<todo, local, stdout>>
  /\ UNCH_OMP

\* the four lines of the iteration: read header, best score, cigar, timer
LinesPerRead == 4

\* the next line of the iteration is written (one 'std::cout << ... << endl'
\* statement); after the last one the region is left
OmpPrint(t) ==
  /\ opc[t] = "critical"
  /\ stdout' = Append(stdout, [read |-> local[t].readno + 1,
                              line |-> local[t].printed + 1,
                              score |-> local[t].best.score,
                              strand |-> local[t].best.strand])
  /\ IF local[t].printed + 1 = LinesPerRead
     THEN /\ critical' = -1
          /\ todo' = [todo EXCEPT ![t] = todo[t] \ {local[t].readno}]
          /\ opc' = [opc EXCEPT ![t] = "loop"]
     ELSE UNCHANGED <<critical, todo, opc>>
  /\ local' = [local EXCEPT ![t].printed = local[t].printed + 1]
  /\ UNCH_OMP

OmpReads == UNION {[1 .. n -> {<<"A">>, <<"A", "T">>}] : n \in 1 .. MaxReads}

\* The schedule of the loop is left to the implementation: every assignment
\* of the iterations to the threads, each thread taking its own in order.
InitOmp ==
  \E g \in {Chain(<<"A">>), Chain(<<"A", "T">>)}, rs \in OmpReads :
    \E owner \in [0 .. (Len(rs) - 1) -> Threads] :
      /\ graph = g
      /\ failed = "none"
      /\ reads = rs
      /\ todo = [t \in Threads |-> {n \in 0 .. (Len(rs) - 1) : owner[n] = t}]
      /\ opc = [t \in Threads |-> "loop"]
      /\ local = [t \in Threads |-> [readno |-> -1, best |-> [score |-> 0, strand |-> "?"],
                                     printed |-> 0]]
      /\ critical = -1
      /\ stdout = <<>>
      /\ ScalarIdle
      /\ VectorIdle
      /\ ParIdle
      /\ LoadIdle

NextOmp == \E t \in Threads : OmpAlign(t) \/ OmpEnterCritical(t) \/ OmpPrint(t)

SpecOmp == InitOmp /\ [][NextOmp]_vars

\* C13: the lines on std::cout stand in the order of the reads: the
\* result of read i is written before the result of read i+1.
C13_OutputInInputOrder ==
  \A a, b \in 1 .. Len(stdout) : a < b => stdout[a].read <= stdout[b].read

(***************************************************************************)
(* The batch loop of the forward kernel: '#pragma omp parallel' with       *)
(* buffers per worker, '#pragma omp for schedule(dynamic) nowait' over the *)
(* batches, and the wrapper's loop after the region                        *)
(***************************************************************************)
\* the k loop of the row block at row j, from vertex k on
RECURSIVE Fwd_Block(_, _, _, _, _, _)
Fwd_Block(g, P, j, k, chars, st) ==
  IF k = g.numVertices THEN st
  ELSE LET col_k == Fwd_Column(g, P, k, j, 0, chars, st)
       \* (the test makes TLC evaluate the column before it goes on)
       IN IF col_k.cur \in {} THEN st ELSE Fwd_Block(g, P, j, k + 1, chars, col_k)

\* the j loop of batch b, from row j on
RECURSIVE Fwd_Blocks(_, _, _, _, _)
Fwd_Blocks(g, P, b, j, st) ==
  IF j >= qryBatchLength(P, b) THEN st
  ELSE LET block_j == Fwd_Block(g, P, j, 0, LoadReadChars(P, b, j), st)
       IN IF block_j.cur \in {} THEN st ELSE Fwd_Blocks(g, P, b, j + blockHeight, block_j)

\* one iteration of the batch loop on the buffers of a worker
Fwd_Batch(g, P, b, st) ==
  Fwd_Blocks(g, P, b, 0, [st EXCEPT !.bs = zero, !.br = zero, !.bc = zero,
                                    !.last = NewLastBatchRow(g)])

\* the iteration after iteration n of the loop
NextIterationSame(n) == n
NextIteration(n) == n + 1

UNCH_PAR == UNCHANGED <<scalar_only, ovars, lvars, graph, failed, readSet, precision, P1, P1R,
                        batch_i, row_j, vertex_k, nearbyColumns, fartherColumns,
                        lastBatchRow, cellOf, readCharsInt, bestScores512, bestRows512,
                        bestCols512, fwdBestRows512, fwdBestCols512>>

\* the dynamic schedule hands the next iteration to a worker that asks
ParTake(t) ==
  /\ vpc = "fwd_batch" /\ wpc[t] = "ask"
  /\ nextBatch < countReadBatches(readSet)
  /\ wbatch' = [wbatch EXCEPT ![t] = nextBatch]
  /\ taken' = [taken EXCEPT ![nextBatch] = Append(taken[nextBatch], t)]
  /\ nextBatch' = NextIteration(nextBatch)
  /\ wpc' = [wpc EXCEPT ![t] = "run"]
  /\ UNCHANGED <<wstate, written, slotWrites, vpc, bestScores, bestRows, bestCols,
                 outputBestScoreVector>>
  /\ UNCH_PAR

\* the DP of the batch, on the worker's own buffers and registers
ParRun(t) ==
  /\ wpc[t] = "run"
  /\ wstate' = [wstate EXCEPT ![t] = Fwd_Batch(graph, P1, wbatch[t], wstate[t])]
  /\ wpc' = [wpc EXCEPT ![t] = "store"]
  /\ UNCHANGED <<nextBatch, wbatch, taken, written, slotWrites, vpc, bestScores,
                 bestRows, bestCols, outputBestScoreVector>>
  /\ UNCH_PAR

\* bestScores[i], bestRows[i] and bestCols[i] are written
ParStore(t) ==
  /\ wpc[t] = "store"
  /\ bestScores' = [bestScores EXCEPT ![wbatch[t]] = wstate[t].bs]
  /\ bestRows' = [bestRows EXCEPT ![wbatch[t]] = wstate[t].br]
  /\ bestCols' = [bestCols EXCEPT ![wbatch[t]] = wstate[t].bc]
  /\ written' = [written EXCEPT ![wbatch[t]] = Append(written[wbatch[t]], t)]
  /\ wpc' = [wpc EXCEPT ![t] = "ask"]
  /\ UNCHANGED <<nextBatch, wbatch, wstate, taken, slotWrites, vpc,
                 outputBestScoreVector>>
  /\ UNCH_PAR

\* no iteration is left: the worker goes on to the end of the region (nowait)
ParLeave(t) ==
  /\ vpc = "fwd_batch" /\ wpc[t] = "ask"
  /\ nextBatch >= countReadBatches(readSet)
  /\ wpc' = [wpc EXCEPT ![t] = "end"]
  /\ UNCHANGED <<nextBatch, wbatch, wstate, taken, written, slotWrites, vpc, bestScores,
                 bestRows, bestCols, outputBestScoreVector>>
  /\ UNCH_PAR

\* the read id the wrapper writes for lane x of batch b
SlotOfLane(P, b, x) == x
SlotOf(P, b, x) == P.sortedReadOrder[b * numSeqs + x + 1]

\* the lanes of all batches that hold a read
ReadLanes(P) ==
  {c \in (0 .. (countReadBatches(P.readSet) - 1)) \X Lanes :
     c[1] * numSeqs + c[2] < Len(P.readSet)}

\* after the barrier at the end of the region the wrapper writes the slots
ParWrapper ==
  /\ vpc = "fwd_batch"
  /\ \A t \in DOMAIN wpc : wpc[t] = "end"
  /\ outputBestScoreVector' =
       [n \in DOMAIN outputBestScoreVector |->
          IF \E c \in ReadLanes(P1) : SlotOf(P1, c[1], c[2]) = n
          THEN LET c == CHOOSE d \in ReadLanes(P1) :
                          /\ SlotOf(P1, d[1], d[2]) = n
                          /\ \A e \in ReadLanes(P1) :
                                SlotOf(P1, e[1], e[2]) = n =>
                                  e[1] * numSeqs + e[2] <= d[1] * numSeqs + d[2]
               IN [outputBestScoreVector[n] EXCEPT
                     !.score = bestScores[c[1]][c[2]],
                     !.refColumnEnd = bestCols[c[1]][c[2]],
                     !.qryRowEnd = bestRows[c[1]][c[2]]]
          ELSE outputBestScoreVector[n]]
  /\ slotWrites' =
       [n \in DOMAIN slotWrites |->
          Cardinality({c \in ReadLanes(P1) : SlotOf(P1, c[1], c[2]) = n})]
  /\ vpc' = "done"
  /\ UNCHANGED <<nextBatch, wpc, wbatch, wstate, taken, written, bestScores, bestRows,
                 bestCols>>
  /\ UNCH_PAR

\* read sets of up to MaxReads + 2 reads, short and long reads in turn
ParReads ==
  {[x \in 1 .. n |-> IF x % 2 = first THEN <<"A">> ELSE <<"A", "C", "T">>] :
     n \in 1 .. (MaxReads + 2), first \in 0 .. 1}

ParGraphs == {g \in VecGraphs : g.numVertices \in {2, 3, 5}}

InitPar ==
  \E g \in ParGraphs, rs \in ParReads :
    /\ StartVec(g, rs, 16)
    /\ nextBatch = 0
    /\ wpc = [t \in Threads |-> "ask"]
    /\ wbatch = [t \in Threads |-> -1]
    /\ wstate = [t \in Threads |->
                   [nearby |-> NewNearbyColumns,
                    farther |-> NewFartherColumns(Phase1_Vectorized(rs, g)),
                    last |-> NewLastBatchRow(g),
                    cur |-> zero, bs |-> zero, br |-> zero, bc |-> zero]]
    /\ taken = [b \in 0 .. (countReadBatches(rs) - 1) |-> <<>>]
    /\ written = [b \in 0 .. (countReadBatches(rs) - 1) |-> <<>>]
    /\ slotWrites = [n \in 0 .. (Len(rs) - 1) |-> 0]

NextPar ==
  \/ \E t \in Threads : ParTake(t) \/ ParRun(t) \/ ParStore(t) \/ ParLeave(t)
  \/ ParWrapper

SpecPar == InitPar /\ [][NextPar]_vars

\* C14: every batch is handed to one worker only, every element of bestScores,
\* bestRows and bestCols is written by one worker only and once, and when the
\* pass is over every batch has been run and written and the wrapper has
\* written the slot of every read exactly once, sortedReadOrder being a
\* permutation of the read ids.
C14_DisjointWrites ==
  /\ \A b \in DOMAIN taken : Len(taken[b]) <= 1 /\ Len(written[b]) <= 1
  /\ \A b \in DOMAIN written : written[b] # <<>> => written[b] = taken[b]
  /\ \A t, u \in DOMAIN wpc :
        (t # u /\ wpc[t] \in {"run", "store"} /\ wpc[u] \in {"run", "store"})
           => wbatch[t] # wbatch[u]
  /\ (vpc = "done" /\ wpc # <<>>) =>
        /\ \A b \in DOMAIN written : Len(written[b]) = 1
        /\ \A n \in DOMAIN slotWrites : slotWrites[n] = 1
        /\ {P1.sortedReadOrder[x] : x \in 1 .. Len(readSet)} = 0 .. (Len(readSet) - 1)

\* several batches, run by different workers, and a slot that is not the lane's position
C14_Witness ==
  /\ vpc = "done" /\ wpc # <<>>
  /\ countReadBatches(readSet) >= 2
  /\ \E b, c \in DOMAIN written : written[b] # written[c]
  /\ \E n \in DOMAIN slotWrites : P1.sortedReadOrder[n + 1] # n

(***************************************************************************)
(* graphLoader: loadFromVG, loadFromTxt, sortVerify                        *)
(***************************************************************************)
\* CSR_container(): an empty di-graph
EmptyDiGraph == [numVertices |-> 0, vertex_label |-> <<>>, edges |-> <<>>,
                 sorted |-> FALSE, verified |-> FALSE]

\* CSR_container::addVertexCount: room for n more vertices, labels 0 .. count-1
addVertexCount(d, n) ==
  [d EXCEPT !.numVertices = d.numVertices + n,
            !.vertex_label = [v \in 0 .. (d.numVertices + n - 1) |->
                                IF v < d.numVertices THEN d.vertex_label[v] ELSE ""]]

\* CSR_container::initVertexSequence
initVertexSequence(d, v, seq) == [d EXCEPT !.vertex_label[v] = seq]

\* CSR_container::initEdges takes edges between vertices of the container
EdgesInRange(d, ev) ==
  \A x \in 1 .. Len(ev) : ev[x][1] \in 0 .. (d.numVertices - 1)
                          /\ ev[x][2] \in 0 .. (d.numVertices - 1)

initEdges(d, ev) == [d EXCEPT !.edges = ev]

EdgeSet(d) == {d.edges[x] : x \in 1 .. Len(d.edges)}

\* the renumberings of the vertices under which every edge goes upwards
TopologicalOrders(d) ==
  {f \in [0 .. (d.numVertices - 1) -> 0 .. (d.numVertices - 1)] :
     /\ \A a, b \in 0 .. (d.numVertices - 1) : a # b => f[a] # f[b]
     /\ \A e \in EdgeSet(d) : f[e[1]] < f[e[2]]}

\* CSR_container::sort with renumbering f
sort(d, f) ==
  [d EXCEPT !.vertex_label = [v \in 0 .. (d.numVertices - 1) |->
                                d.vertex_label[CHOOSE u \in 0 .. (d.numVertices - 1) : f[u] = v]],
            !.edges = [x \in 1 .. Len(d.edges) |-> <<f[d.edges[x][1]], f[d.edges[x][2]]>>],
            !.sorted = TRUE]

\* CSR_container::verify: every edge goes upwards
verify(d) == \A e \in EdgeSet(d) : e[1] < e[2]

\* std::stoi on a token of one digit
DigitTokens == <<"0", "1", "2", "3", "4", "5", "6", "7", "8", "9">>
stoi(t) == (CHOOSE x \in 1 .. Len(DigitTokens) : DigitTokens[x] = t) - 1

\* exit status of a process ended by abort()
SIGABRT_Status == 134

UNCH_LOAD == UNCHANGED <<scalar_only, vvars, ovars, pvars, failed, file, NDEBUG>>

\* exists(filename), the first statement of both loaders
LoadOpen ==
  /\ lpc = "start"
  /\ IF ~file.accessible
     THEN lpc' = "exit" /\ exitCode' = 1
     ELSE lpc' = (IF file.kind = "vg" THEN "vg_nodes" ELSE "txt_lines")
          /\ exitCode' = exitCode
  /\ UNCHANGED <<graph, diGraph, edgeVector, currentLine>>
  /\ UNCH_LOAD

\* lambda_v on the nodes of chunk c from node x on
RECURSIVE lambda_v(_, _, _)
lambda_v(d, nodes, x) ==
  IF x > Len(nodes) THEN d
  ELSE lambda_v(initVertexSequence(d, nodes[x].id - 1, nodes[x].sequence), nodes, x + 1)

\* first pass over the stream: one chunk
LoadVGNodes ==
  /\ lpc = "vg_nodes" /\ currentLine < Len(file.chunks)
  /\ LET c == file.chunks[currentLine + 1]
     IN diGraph' = lambda_v(addVertexCount(diGraph, Len(c.node)), c.node, 1)
  /\ currentLine' = currentLine + 1
  /\ UNCHANGED <<graph, lpc, edgeVector, exitCode>>
  /\ UNCH_LOAD

\* the stream is opened again for the edges
LoadVGNodesEnd ==
  /\ lpc = "vg_nodes" /\ currentLine = Len(file.chunks)
  /\ lpc' = "vg_edges"
  /\ currentLine' = 0
  /\ UNCHANGED <<graph, diGraph, edgeVector, exitCode>>
  /\ UNCH_LOAD

\* the three assertions on an edge record
EdgeSupported(e) == e.from_start = FALSE /\ e.to_end = FALSE /\ e.overlap = 0

\* second pass: lambda_e on one chunk; an assertion that fails aborts
LoadVGEdges ==
  /\ lpc = "vg_edges" /\ currentLine < Len(file.chunks)
  /\ LET c == file.chunks[currentLine + 1]
     IN IF ~NDEBUG /\ \E x \in 1 .. Len(c.edge) : ~EdgeSupported(c.edge[x])
        THEN /\ lpc' = "abort" /\ exitCode' = SIGABRT_Status
             /\ UNCHANGED <<edgeVector, currentLine>>
        ELSE /\ edgeVector' = edgeVector \o
                  [x \in 1 .. Len(c.edge) |-> <<c.edge[x].from - 1, c.edge[x].to - 1>>]
             /\ currentLine' = currentLine + 1
             /\ UNCHANGED <<lpc, exitCode>>
  /\ UNCHANGED <<graph, diGraph>>
  /\ UNCH_LOAD

\* diGraph.initEdges(edgeVector); an edge to a vertex that does not exist is
\* an InvalidGraph
LoadVGInitEdges ==
  /\ lpc = "vg_edges" /\ currentLine = Len(file.chunks)
  /\ IF EdgesInRange(diGraph, edgeVector)
     THEN diGraph' = initEdges(diGraph, edgeVector) /\ lpc' = "sort"
          /\ exitCode' = exitCode
     ELSE diGraph' = diGraph /\ lpc' = "exit" /\ exitCode' = 1
  /\ UNCHANGED <<graph, edgeVector, currentLine>>
  /\ UNCH_LOAD

\* one round of the getline loop of loadFromTxt
LoadTxtLine ==
  /\ lpc = "txt_lines" /\ currentLine <= Len(file.lines)
  /\ IF currentLine = 0
     THEN /\ diGraph' = addVertexCount(diGraph, stoi(file.header))
          /\ UNCHANGED <<edgeVector, lpc, exitCode>>
          /\ currentLine' = currentLine + 1
     ELSE LET tokens == file.lines[currentLine]
          IN IF ~NDEBUG /\ (currentLine > diGraph.numVertices \/ Len(tokens) = 0)
             THEN /\ lpc' = "abort" /\ exitCode' = SIGABRT_Status
                  /\ UNCHANGED <<diGraph, edgeVector, currentLine>>
             ELSE /\ diGraph' = initVertexSequence(diGraph, currentLine - 1,
                                                   tokens[Len(tokens)])
                  /\ edgeVector' = edgeVector \o
                       [x \in 1 .. (Len(tokens) - 1) |->
                          <<currentLine - 1, stoi(tokens[x])>>]
                  /\ currentLine' = currentLine + 1
                  /\ UNCHANGED <<lpc, exitCode>>
  /\ UNCHANGED graph
  /\ UNCH_LOAD

\* after the last line: initEdges and the two assertions on the sizes
LoadTxtInitEdges ==
  /\ lpc = "txt_lines" /\ currentLine = Len(file.lines) + 1
  /\ IF ~EdgesInRange(diGraph, edgeVector)
     THEN diGraph' = diGraph /\ lpc' = "exit" /\ exitCode' = 1
     ELSE /\ diGraph' = initEdges(diGraph, edgeVector)
          /\ IF ~NDEBUG /\ (diGraph.numVertices = 0 \/ Len(edgeVector) = 0)
             THEN lpc' = "abort" /\ exitCode' = SIGABRT_Status
             ELSE lpc' = "sort" /\ exitCode' = exitCode
  /\ UNCHANGED <<graph, edgeVector, currentLine>>
  /\ UNCH_LOAD

\* sortVerify, and the return to the caller, which hands diGraph to the DP; a
\* graph with a cycle is an InvalidGraph
sortVerify ==
  /\ lpc = "sort"
  /\ IF TopologicalOrders(diGraph) = {}
     THEN /\ lpc' = "exit" /\ exitCode' = 1
          /\ UNCHANGED <<graph, diGraph>>
     ELSE \E f \in TopologicalOrders(diGraph) :
            LET d == sort(diGraph, f)
            IN /\ diGraph' = IF NDEBUG THEN d ELSE [d EXCEPT !.verified = verify(d)]
               /\ graph' = [numVertices |-> d.numVertices,
                            vertex_label |-> d.vertex_label,
                            edges |-> EdgeSet(d)]
               /\ lpc' = "loaded"
               /\ exitCode' = exitCode
  /\ UNCHANGED <<edgeVector, currentLine>>
  /\ UNCH_LOAD

\* Text files as the format describes them: a header with the count of
\* vertices, then per vertex the 1-based ids of its out-neighbours and its
\* label; the edges go from smaller to larger ids or back, without a cycle.
Labels == <<"A", "C", "T", "G">>

TxtLine(n, v, E) ==
  LET nbrs == SortedSeq({e[2] : e \in {d \in E : d[1] = v}})
  IN [x \in 1 .. (Len(nbrs) + 1) |->
        IF x <= Len(nbrs) THEN DigitTokens[nbrs[x] + 1] ELSE Labels[v]]

\* the acyclic edge sets over the vertices 1 .. n: the edge sets that go
\* forward along some order f of the vertices
AcyclicEdgeSets(n) ==
  LET orders == {f \in [1 .. n -> 1 .. n] : \A a, b \in 1 .. n : a # b => f[a] # f[b]}
      forward == {e \in (1 .. n) \X (1 .. n) : e[1] < e[2]}
  IN UNION {{{<<f[e[1]], f[e[2]]>> : e \in F} : F \in SUBSET forward} : f \in orders}

TxtFiles ==
  UNION {{[kind |-> "txt", header |-> DigitTokens[n + 1],
           lines |-> [v \in 1 .. n |-> TxtLine(n, v, E)]] : E \in AcyclicEdgeSets(n)} :
         n \in 1 .. MaxV}

\* VG streams of one or two chunks: a chain of 1-based nodes, each edge record
\* with its three flags
EdgeRecords(a, b) ==
  {[from |-> a, to |-> b, from_start |-> fs, to_end |-> te, overlap |-> ov] :
     fs \in BOOLEAN, te \in BOOLEAN, ov \in 0 .. 1}

NodeRecord(v) == [id |-> v, sequence |-> Labels[v]]

VGFiles ==
  {[kind |-> "vg", chunks |-> <<[node |-> <<NodeRecord(1), NodeRecord(2)>>, edge |-> <<e>>]>>] :
     e \in EdgeRecords(1, 2)} \cup
  {[kind |-> "vg",
    chunks |-> <<[node |-> <<NodeRecord(1), NodeRecord(2)>>, edge |-> <<e1>>],
                 [node |-> <<NodeRecord(3)>>, edge |-> <<e2>>]>>] :
     e1 \in EdgeRecords(1, 2), e2 \in EdgeRecords(2, 3)}

WithAccess(f, a) == [c \in DOMAIN f \cup {"accessible"} |-> IF c = "accessible" THEN a ELSE f[c]]

InitLoad ==
  \E f \in TxtFiles \cup VGFiles, a \in BOOLEAN, b \in BOOLEAN :
    /\ file = WithAccess(f, a)
    /\ NDEBUG = b
    /\ lpc = "start"
    /\ diGraph = EmptyDiGraph
    /\ edgeVector = <<>>
    /\ currentLine = 0
    /\ exitCode = -1
    /\ graph = [numVertices |-> 0, vertex_label |-> <<>>, edges |-> {}]
    /\ failed = "none"
    /\ ScalarIdle /\ VectorIdle /\ OmpIdle /\ ParIdle

NextLoad ==
  \/ LoadOpen
  \/ LoadVGNodes \/ LoadVGNodesEnd \/ LoadVGEdges \/ LoadVGInitEdges
  \/ LoadTxtLine \/ LoadTxtInitEdges
  \/ sortVerify

SpecLoad == InitLoad /\ [][NextLoad]_vars

\* the edges the lines 1 .. n of the text file describe: 1-based ids rebased
RECURSIVE TxtEdges(_, _)
TxtEdges(lines, n) ==
  IF n = 0 THEN <<>>
  ELSE TxtEdges(lines, n - 1) \o
         [x \in 1 .. (Len(lines[n]) - 1) |-> <<n - 1, stoi(lines[n][x]) - 1>>]

\* C15: when lines 1 .. i of the text file are read, every out-neighbour
\* token n of line i has given the edge (i-1, n-1), and the last token of line
\* i is the label of vertex i-1.
C15_TxtEdgesRebased ==
  (lpc = "txt_lines" /\ currentLine >= 1) =>
     /\ edgeVector = TxtEdges(file.lines, currentLine - 1)
     /\ \A v \in 1 .. (currentLine - 1) :
           diGraph.vertex_label[v - 1] = file.lines[v][Len(file.lines[v])]

\* the file is not accessible, or one of its edge records is not supported
IngestError ==
  \/ ~file.accessible
  \/ /\ file.kind = "vg"
     /\ \E c \in 1 .. Len(file.chunks) :
          \E x \in 1 .. Len(file.chunks[c].edge) : ~EdgeSupported(file.chunks[c].edge[x])

\* C16: when the file is not accessible or holds an edge record with
\* from_start, to_end or an overlap, the graph is never sorted, verified or
\* handed over, and the run ends with exit code 1; a graph that is handed over
\* has been sorted and then verified.
C16_IngestErrorsAbort ==
  /\ (lpc # "idle" /\ IngestError) =>
        /\ lpc \notin {"sort", "loaded"}
        /\ ~diGraph.sorted /\ ~diGraph.verified
        /\ exitCode \in {-1, 1}
  /\ lpc = "loaded" => (diGraph.sorted /\ diGraph.verified)

(***************************************************************************)
(* The constructor of Phase1_Vectorized, call by call and batch by batch   *)
(***************************************************************************)
UNCH_CTOR == UNCHANGED <<scalar_only, xvars, graph, failed, readSet, precision, P1R,
                         row_j, vertex_k, nearbyColumns, fartherColumns, lastBatchRow,
                         cellOf, readCharsInt, bestScores512, bestRows512, bestCols512,
                         fwdBestRows512, fwdBestCols512, bestScores, bestRows, bestCols,
                         outputBestScoreVector>>

\* sortReadsForLoadBalance(), and the first push_back of convertToSOA()
CtorSort ==
  /\ vpc = "ctor_sort"
  /\ LET tuples == sortReadsForLoadBalance(readSet)
     IN P1' = [P1 EXCEPT
                 !.sortedReadLengths = [x \in 1 .. Len(readSet) |-> tuples[x][1]],
                 !.sortedReadOrder = [x \in 1 .. Len(readSet) |-> tuples[x][2]],
                 !.readSetSOAPrefixSum = (0 :> 0)]
  /\ batch_i' = 0
  /\ vpc' = "ctor_soa"
  /\ UNCH_CTOR

\* one round of the loop of convertToSOA(): the batch at position batch_i
CtorSOABatch ==
  /\ vpc = "ctor_soa"
  /\ batch_i < Len(readSet)
  /\ LET soa == P1.readSetSOA \o SOABatch(readSet, P1.sortedReadOrder, batch_i)
     IN P1' = [P1 EXCEPT
                 !.readSetSOA = soa,
                 !.readSetSOAPrefixSum =
                    P1.readSetSOAPrefixSum @@ ((batch_i \div numSeqs) + 1 :> Len(soa))]
  /\ batch_i' = batch_i + numSeqs
  /\ vpc' = vpc
  /\ UNCH_CTOR

\* the assertion at the end of convertToSOA(), then computeLongHops()
CtorLongHops ==
  /\ vpc = "ctor_soa"
  /\ batch_i >= Len(readSet)
  /\ P1' = [P1 EXCEPT !.withLongHop = computeLongHops(graph)]
  /\ batch_i' = 0
  /\ vpc' = IF DOMAIN P1.readSetSOAPrefixSum = 0 .. countReadBatches(readSet)
            THEN "constructed" ELSE "abort"
  /\ UNCH_CTOR

\* reads of no, one, blockHeight and blockHeight + 1 characters
BatchReads == {<<>>, <<"A">>, Read16, Read17}

BatchReadSets == UNION {[1 .. n -> BatchReads] : n \in 1 .. (MaxReads + 1)}

\* the members as the constructor of Phase1_Vectorized finds them
StartCtor(g, rs) ==
  /\ graph = g
  /\ failed = "none"
  /\ readSet = rs
  /\ precision = 16
  /\ P1 = [readSet |-> rs, sortedReadLengths |-> <<>>, sortedReadOrder |-> <<>>,
           readSetSOA |-> <<>>, readSetSOAPrefixSum |-> <<>>, withLongHop |-> <<>>]
  /\ P1R = <<>>
  /\ vpc = "ctor_sort"
  /\ batch_i = 0 /\ row_j = 0 /\ vertex_k = 0
  /\ nearbyColumns = <<>> /\ fartherColumns = <<>> /\ lastBatchRow = <<>>
  /\ cellOf = <<>>
  /\ readCharsInt = <<>>
  /\ bestScores512 = <<>> /\ bestRows512 = <<>> /\ bestCols512 = <<>>
  /\ fwdBestRows512 = <<>> /\ fwdBestCols512 = <<>>
  /\ bestScores = <<>> /\ bestRows = <<>> /\ bestCols = <<>>
  /\ outputBestScoreVector = <<>>
  /\ ScalarIdle /\ OmpIdle /\ ParIdle /\ LoadIdle

InitBatch == \E rs \in BatchReadSets : StartCtor(Chain(<<"A", "C", "T">>), rs)

NextBatch == CtorSort \/ CtorSOABatch \/ CtorLongHops

SpecBatch == InitBatch /\ [][NextBatch]_vars

\* the reads of batch b, by sorted position
BatchMembers(b) ==
  {x \in 1 .. Len(readSet) : (x - 1) \div numSeqs = b}

\* C17: the reads stand in descending order of length and are taken in groups
\* of numSeqs lanes; for every batch b that has been laid out, the padded
\* length P_b is the smallest multiple of blockHeight that is not below the
\* longest read of the batch, prefix[b+1] - prefix[b] = P_b * numSeqs, and the
\* element at prefix[b] + j * numSeqs + k is character j of the k-th read of
\* the batch when that read exists and has a character j, and DUMMY otherwise.
C17_BatcherLayout ==
  (vpc \in {"ctor_soa", "constructed", "abort"}) =>
     LET order == P1.sortedReadOrder
         prefix == P1.readSetSOAPrefixSum
         rd(x) == readSet[order[x] + 1]
     IN /\ vpc # "abort"
        /\ {order[x] : x \in 1 .. Len(readSet)} = 0 .. (Len(readSet) - 1)
        /\ Len(order) = Len(readSet)
        /\ \A x, y \in 1 .. Len(readSet) : x < y => Len(rd(x)) >= Len(rd(y))
        /\ \A x \in 1 .. Len(readSet) : P1.sortedReadLengths[x] = Len(rd(x))
        /\ prefix[0] = 0
        /\ vpc = "constructed" =>
              /\ DOMAIN prefix = 0 .. countReadBatches(readSet)
              /\ Len(P1.readSetSOA) = prefix[countReadBatches(readSet)]
              /\ [c \in DOMAIN Batched(readSet) |-> P1[c]] = Batched(readSet)
        /\ \A b \in 0 .. (countReadBatches(readSet) - 1) :
              (b + 1) \in DOMAIN prefix =>
                 LET longest == SetMax({Len(rd(x)) : x \in BatchMembers(b)})
                     size == prefix[b + 1] - prefix[b]
                     P_b == size \div numSeqs
                 IN /\ size = P_b * numSeqs
                    /\ P_b % blockHeight = 0
                    /\ P_b >= longest
                    /\ P_b - blockHeight < longest
                    /\ \A j \in 0 .. (P_b - 1), k \in Lanes :
                          P1.readSetSOA[prefix[b] + j * numSeqs + k + 1] =
                             (IF b * numSeqs + k < Len(readSet)
                                 /\ j < Len(rd(b * numSeqs + k + 1))
                              THEN rd(b * numSeqs + k + 1)[j + 1]
                              ELSE DUMMY)

\* two batches of different padded length, the longest read of one of
\* blockHeight characters, and a lane that holds no read
C17_Witness ==
  /\ vpc = "constructed"
  /\ countReadBatches(readSet) >= 2
  /\ Len(readSet) % numSeqs # 0
  /\ \E x \in 1 .. Len(readSet) : Len(readSet[x]) = blockHeight
  /\ P1.readSetSOAPrefixSum[1] = 2 * blockHeight * numSeqs
  /\ P1.readSetSOAPrefixSum[2] - P1.readSetSOAPrefixSum[1] = blockHeight * numSeqs
  /\ \E n \in 1 .. Len(readSet) : P1.sortedReadOrder[n] # n - 1

\* the read in lane x of batch b, or the empty string when the lane holds none
LaneRead(P, b, x) ==
  IF b * numSeqs + x < Len(P.readSet)
  THEN P.readSet[P.sortedReadOrder[b * numSeqs + x + 1] + 1]
  ELSE <<>>

\* C18: in every lane the positions from the read's length on hold DUMMY, which
\* is the label of no vertex, and the best score the forward kernel stores for
\* the lane is the maximum over the cells of the read's own rows (0 for a lane
\* without a read).
C18_PaddingNeverScores ==
  (vpc \in {"fwd_batch", "fwd_block", "fwd_col"}) =>
     /\ \A v \in Vertices(graph) : graph.vertex_label[v] # DUMMY
     /\ \A b \in 0 .. (countReadBatches(readSet) - 1), x \in Lanes :
           /\ \A r \in 1 .. qryBatchLength(P1, b) :
                 r > Len(LaneRead(P1, b, x)) => LaneString(P1, b, x)[r] = DUMMY
           /\ (vpc = "fwd_batch" /\ b < batch_i) =>
                 bestScores[b][x] = RefBest(graph, LaneRead(P1, b, x))


(***************************************************************************)
(* The reads of the blocked traversal                                      *)
(***************************************************************************)
\* a smaller set of runs of the vector pipeline, chosen to have several
\* batches, two row blocks, and neighbours both nearer and farther than
\* blockWidth
BlockGraphs == {g \in VecGraphs : g.numVertices >= 5}

BlockReadSets == UNION {[1 .. n -> {<<"A">>, Read17}] : n \in 1 .. MaxReads}

InitVecBlocks == \E g \in BlockGraphs, rs \in BlockReadSets : StartVec(g, rs, 16) /\ ParIdle

SpecVecBlocks == InitVecBlocks /\ [][NextVec]_vars

\* the cell of row r of vertex v of batch b; the row above row 0 is the
\* zero-filled lastBatchRow
IntendedCell(kernel, b, r, v) == IF r < 0 THEN ZeroCell ELSE <<kernel, b, r, v>>

\* every read of the l loop of vertex k, whose neighbours nbrs lie sign * (k - p)
\* vertices away, finds the cell it is meant to read
ReadsComputedCells(kernel, P, k, nbrs, sign) ==
  \A l \in 0 .. (blockHeight - 1) :
    LET h == StoreRows(cellOf, P, kernel, batch_i, row_j, k, 0, l)
        loopJ == row_j \div blockHeight
        r == row_j + l
    IN /\ \A m \in 1 .. Len(nbrs) :
            LET p == nbrs[m]
                column == NearOrFar(sign * (k - p), p, h.nearby, h.farther)
            IN /\ column[l] = IntendedCell(kernel, batch_i, r, p)
               /\ IF l = 0
                  THEN RowAbove(loopJ, p, h.last) = IntendedCell(kernel, batch_i, r - 1, p)
                  ELSE column[l - 1] = IntendedCell(kernel, batch_i, r - 1, p)
       /\ IF l = 0
          THEN RowAbove(loopJ, k, h.last) = IntendedCell(kernel, batch_i, r - 1, k)
          ELSE h.nearby[k % blockWidth][l - 1] = IntendedCell(kernel, batch_i, r - 1, k)

\* C19: in the forward and the reverse vector kernel, every value read from
\* lastBatchRow[previous], nearby[p mod blockWidth] or farther[p] while the
\* column of vertex k is computed is the score of the intended cell of the
\* same batch (row r-1 or r of the neighbour p, row r-1 of k), stored earlier
\* in this batch; in the first row block the row above is all zeros.
C19_ReadsOnlyComputedCells ==
  /\ (vpc = "fwd_col" /\ vertex_k < graph.numVertices) =>
       /\ ReadsComputedCells("fwd", P1, vertex_k, adjcny_in(graph, vertex_k), 1)
       /\ row_j = 0 => \A v \in Vertices(graph) : RowAbove(0, v, lastBatchRow) = zero
  /\ (vpc = "rev_col" /\ vertex_k >= 0) =>
       /\ ReadsComputedCells("rev", P1R, vertex_k, adjcny_out(graph, vertex_k), -1)
       /\ row_j = 0 => \A v \in Vertices(graph) : RowAbove(0, v, lastBatchRow) = zero

\* the second row block of the second batch, at a vertex with a neighbour at
\* least blockWidth away and another one nearer, in either kernel
C19_Witness ==
  /\ vpc \in {"fwd_col", "rev_col"}
  /\ batch_i = 1
  /\ row_j = blockHeight
  /\ vertex_k \in Vertices(graph)
  /\ LET nbrs == IF vpc = "fwd_col" THEN adjcny_in(graph, vertex_k)
                 ELSE adjcny_out(graph, vertex_k)
     IN /\ \E m \in 1 .. Len(nbrs) : nbrs[m] - vertex_k >= blockWidth
                                     \/ vertex_k - nbrs[m] >= blockWidth
        /\ \E m \in 1 .. Len(nbrs) : nbrs[m] - vertex_k \in {-1, 1}


(***************************************************************************)
(* The branch the walk takes                                               *)
(***************************************************************************)
\* the vertices of the slab with an edge into the walk's vertex
WalkPreds == {e[1] : e \in {d \in graph.edges : d[2] = gpos /\ d[1] >= j0}}

\* the candidates of the recurrence at the walk's cell
MatchCandidate == SetMax({T_matchScore} \cup {aboveRowScores[k - j0] + T_matchScore : k \in WalkPreds})
DeletionCandidate == SetMax({-1} \cup {currentRowScores[k - j0] - del : k \in WalkPreds})

WalkAtCell == pc = "phase4" /\ col >= 0 /\ row >= 0 /\ currentRowScores[col] > 0

\* C20: at every step of the walk, a cell whose score equals the match/mismatch
\* candidate yields '=' or 'X'; otherwise a cell whose score equals the deletion
\* candidate yields 'D' and the walk stays on its row; otherwise the walk
\* yields 'I' and moves up one row: match/mismatch > deletion > insertion.
C20_BranchPreference ==
  [][WalkAtCell =>
       IF currentRowScores[col] = MatchCandidate
       THEN /\ Len(cigar') = Len(cigar) + 1
            /\ cigar'[Len(cigar')] \in {"=", "X"}
            /\ SubSeq(cigar', 1, Len(cigar)) = cigar
       ELSE IF currentRowScores[col] = DeletionCandidate
       THEN cigar' = Append(cigar, "D") /\ row' = row
       ELSE cigar' = Append(cigar, "I") /\ row' = row - 1]_vars


\* in the middle of a walk, a cell whose score is explained by the
\* match/mismatch branch and by the deletion branch alike
C20_Witness ==
  /\ WalkAtCell
  /\ Len(cigar) >= 1
  /\ currentRowScores[col] = MatchCandidate
  /\ currentRowScores[col] = DeletionCandidate


(***************************************************************************)
(* The vertical differences of the recomputed slab                         *)
(***************************************************************************)
Abs(x) == IF x < 0 THEN -x ELSE x

\* after row i - 1 of the slab is recomputed, matrix holds that row and the
\* row above it (all zeros above row 0)
SlabRowDone == pc = "phase3" /\ i >= 1

VerticalDifference(j) == matrix[(i - 1) % 2][j] - matrix[PrevIdx(i - 1)][j]

HopEdges == {<<0, blockWidth - 1>>, <<0, blockWidth>>, <<0, blockWidth + 1>>,
             <<1, blockWidth + 1>>, <<2, blockWidth + 1>>}

HopGraphs ==
  {[numVertices |-> blockWidth + 2,
    vertex_label |-> [v \in 0 .. (blockWidth + 1) |-> <<"A", "C", "T", "A">>[(v % 4) + 1]],
    edges |-> {<<v, v + 1>> : v \in 0 .. blockWidth} \cup E] : E \in SUBSET HopEdges}

\* the constructor of Phase1_Rev_Vectorized, given the reversed reads
RevCtor ==
  /\ vpc = "constructed"
  /\ P1R' = Phase1_Rev_Vectorized([n \in 1 .. Len(readSet) |-> Reverse(readSet[n])], graph)
  /\ vpc' = "rev_constructed"
  /\ UNCHANGED <<scalar_only, xvars, graph, failed, readSet, precision, P1, batch_i,
                 row_j, vertex_k, nearbyColumns, fartherColumns, lastBatchRow,
                 cellOf, readCharsInt, bestScores512, bestRows512, bestCols512,
                 fwdBestRows512, fwdBestCols512, bestScores, bestRows, bestCols,
                 outputBestScoreVector>>

InitHops == \E g \in HopGraphs, rs \in {<<(<<"A">>)>>, <<(<<"A">>), Read17>>} : StartCtor(g, rs)

NextHops == CtorSort \/ CtorSOABatch \/ CtorLongHops \/ RevCtor

SpecHops == InitHops /\ [][NextHops]_vars

\* C22 as stated: after computeLongHops of the reverse class, a vertex v is
\* marked long exactly if it has an out-edge to some u with u - v >= blockWidth.
C22_RevLongIffFarOutEdge ==
  vpc = "rev_constructed" =>
    \A v \in Vertices(graph) :
      P1R.withLongHop[v] <=> \E e \in graph.edges : e[1] = v /\ e[2] - v >= blockWidth

\* C22 amended: after computeLongHops of the reverse class, a vertex v is
\* marked long exactly if it has an in-edge from some u with v - u >= blockWidth.
C22_RevLongIffFarInEdge ==
  vpc = "rev_constructed" =>
    \A v \in Vertices(graph) :
      P1R.withLongHop[v] <=> \E e \in graph.edges : e[2] = v /\ v - e[1] >= blockWidth

\* both classes constructed on a graph with a hop of blockWidth, one longer
\* and one shorter
C22_Witness ==
  /\ vpc = "rev_constructed"
  /\ {<<0, blockWidth - 1>>, <<0, blockWidth>>, <<1, blockWidth + 1>>} \subseteq graph.edges
  /\ P1R.withLongHop[blockWidth]
  /\ ~P1R.withLongHop[blockWidth - 1]


(***************************************************************************)
(* Termination of the walk                                                 *)
(***************************************************************************)
\* the walk is a sequential loop: an iteration that can run does run, and it
\* counts as run when it moves the walk or leaves the loop (every iteration
\* that stays in the loop appends its cell to walk)
WalkStep == WalkEnd \/ WalkMatch \/ WalkDeletion \/ WalkInsertion

\* the short reads, and reads whose walks take a deletion, an insertion and a
\* mismatch
WalkReads == (StringsUpTo({"A", "C", "T"}, MaxSmallLen) \ {<<>>}) \cup
             {<<"A", "A", "T", "T">>, <<"A", "A", "C", "T", "T">>,
              <<"A", "A", "T", "T", "T">>}

InitWalk == \E g \in CatalogueGraphs, r \in WalkReads : StartScalar(<<g, r>>)

\* the pipeline up to the end of the walk
NextWalk ==
  \/ P1FwdRow \/ P1FwdDone \/ P1RevRow \/ P1RevDone
  \/ SelectStrand
  \/ Phase2
  \/ Phase3Row \/ Phase3Check
  \/ WalkEnd \/ WalkMatch \/ WalkDeletion \/ WalkInsertion

SpecWalkFair == InitWalk /\ [][NextWalk]_vars /\ WF_<<pc, row, col, walk>>(WalkStep)

\* a step of the walk stops it, or moves up a row, or moves to a smaller
\* column of the same row, and stays inside the slab
WalkStepDescends ==
  \/ pc' # "phase4"
  \/ /\ row' < row \/ (row' = row /\ col' < col)
     /\ col' <= col
     /\ col' >= 0
     /\ row' >= -1

\* C23: every step of the walk stops it or strictly decreases the row or
\* moves to a strictly smaller column; the walk takes at most
\* (bestRow + 1) + slab width steps, never indexes a row below 0 or a column
\* below the slab start, and ends.
C23_WalkTerminates ==
  /\ [][pc = "phase4" => WalkStepDescends]_<<pc, row, col, walk>>
  /\ [](pc \in {"phase4", "compact"} =>
          /\ Len(walk) - 1 <= (best.qryRow + 1) + reducedWidth
          /\ \A x \in 1 .. Len(walk) : /\ walk[x][1] >= -1
                                       /\ walk[x][2] >= j0
          /\ WalkAtCell => row \in DOMAIN completeMatrixLog /\ col \in DOMAIN currentRowScores)
  /\ (pc = "phase4") ~> (pc # "phase4")

\* a finished walk of five cells that moved up rows and, by a deletion, along
\* a row
C23_Witness ==
  /\ pc = "compact"
  /\ \E x \in 1 .. Len(cigar) : cigar[x] = "D"
  /\ Len(walk) >= 5


(***************************************************************************)
(* What the two wrappers write                                             *)
(***************************************************************************)
\* runs of the vector pipeline on the graphs of at most three vertices, where
\* the reverse wrapper's assertion holds for some read sets and fails for others
WrapReadSets == UNION {[1 .. n -> {<<"A">>, Read16, Read17}] : n \in 1 .. MaxReads}

InitVecWrap ==
  \E g \in {h \in VecGraphs : h.numVertices <= 3}, rs \in WrapReadSets :
    StartVec(g, rs, 16) /\ ParIdle

SpecVecWrap == InitVecWrap /\ [][NextVec]_vars

\* the records of all reads agree on the fields F before and after the step
SameFields(F) ==
  \A n \in DOMAIN outputBestScoreVector :
    \A f \in F : outputBestScoreVector'[n][f] = outputBestScoreVector[n][f]

\* C24: the forward wrapper writes only score, refColumnEnd and qryRowEnd of
\* each read's record; the reverse wrapper writes only refColumnStart and
\* qryRowStart and leaves score, refColumnEnd and qryRowEnd of every read as
\* they were; neither writes a slot of a read index >= the number of reads.
C24_WrapperFrame ==
  [][/\ DOMAIN outputBestScoreVector' = 0 .. (Len(readSet) - 1)
     /\ \A n \in DOMAIN outputBestScoreVector :
          DOMAIN outputBestScoreVector'[n] = DOMAIN outputBestScoreVector[n]
     /\ (vpc = "fwd_batch" /\ vpc' = "rev_batch") =>
          SameFields({"refColumnStart", "qryRowStart"})
     /\ (vpc = "rev_batch" /\ vpc' \in {"done", "abort"}) =>
          SameFields({"score", "refColumnEnd", "qryRowEnd"})
     /\ vpc' = vpc =>
          SameFields({"score", "refColumnEnd", "qryRowEnd", "refColumnStart", "qryRowStart"})
    ]_vars

\* both wrappers have run on a read set whose last batch is not full, and a
\* read has its end and its start
C24_Witness ==
  /\ vpc = "done"
  /\ Len(readSet) % numSeqs # 0
  /\ Len(readSet) > numSeqs
  /\ \E n \in DOMAIN outputBestScoreVector :
       /\ outputBestScoreVector[n].score > 0
       /\ outputBestScoreVector[n].refColumnEnd >= 0
       /\ outputBestScoreVector[n].refColumnStart >= 0
       /\ outputBestScoreVector[n].qryRowStart # outputBestScoreVector[n].qryRowEnd


(***************************************************************************)
(* The lines of one read on std::cout                                      *)
(***************************************************************************)
\* C25: the four output lines of one read (read header, best score, cigar,
\* timer) are written inside one critical section: under every interleaving
\* of the worker threads at most one thread is inside the region, and
\* std::cout is a sequence of whole blocks, the lines of two reads never
\* interleaved.
C25_LinesNotInterleaved ==
  /\ \A t, u \in Threads : opc[t] = "critical" /\ opc[u] = "critical" => t = u
  /\ \A t \in Threads : opc[t] = "critical" => critical = t
  /\ \A x \in 1 .. Len(stdout) :
       \/ stdout[x].line = 1 /\ (x > 1 => stdout[x - 1].line = LinesPerRead)
       \/ /\ x > 1
          /\ stdout[x].line = stdout[x - 1].line + 1
          /\ stdout[x].read = stdout[x - 1].read

\* a thread waits at the region while another one is between two of its
\* lines, after the block of an earlier read
C25_Witness ==
  \E t, u \in Threads :
    /\ opc[t] = "critical" /\ local[t].printed \in 1 .. (LinesPerRead - 1)
    /\ opc[u] = "wait"
    /\ Len(stdout) > LinesPerRead
    /\ stdout[1].read # stdout[Len(stdout)].read


(***************************************************************************)
(* Validity of the reported positions                                      *)
(***************************************************************************)
\* the end fields of read n, written by the forward wrapper, lie inside the
\* read and the graph
EndValid(n) ==
  /\ outputBestScoreVector[n].qryRowEnd \in 0 .. (Len(readSet[n + 1]) - 1)
  /\ outputBestScoreVector[n].refColumnEnd \in Vertices(graph)

\* the begin fields of read n, written by the reverse wrapper, lie inside the
\* read and the graph and not after the end fields
StartValid(n) ==
  /\ outputBestScoreVector[n].qryRowStart \in 0 .. outputBestScoreVector[n].qryRowEnd
  /\ outputBestScoreVector[n].refColumnStart \in 0 .. outputBestScoreVector[n].refColumnEnd

\* C26: after the forward and the reverse pass, for every read,
\* 0 <= qryRowStart <= qryRowEnd < |read| and
\* 0 <= refColumnStart <= refColumnEnd < |V|; the row taken from a lane is a
\* row of the read, also for reads of best score 0 and reads shorter than the
\* padded length of their batch.
C26_PositionsValid ==
  /\ vpc \in {"rev_batch", "rev_block", "rev_col", "done", "abort"} =>
       \A n \in DOMAIN outputBestScoreVector : EndValid(n)
  /\ vpc = "done" =>
       \A n \in DOMAIN outputBestScoreVector : EndValid(n) /\ StartValid(n)


(***************************************************************************)
(* The endpoint of the scalar phase 1 among cells of equal score           *)
(***************************************************************************)
\* the cells <<row, vertex>> of read rd that attain the best score
MaximalCells(g, rd) ==
  LET M == RefMatrix(g, rd)
      top == SetMax({0} \cup {M[r][v] : r \in 1 .. Len(rd), v \in 1 .. g.numVertices})
  IN {c \in (0 .. (Len(rd) - 1)) \X Vertices(g) : M[c[1] + 1][c[2] + 1] = top}

\* cell a is visited before cell b: rows outer, vertices inner
VisitedBefore(a, b) == a[1] < b[1] \/ (a[1] = b[1] /\ a[2] < b[2])

Endpoint(b) == <<b.qryRow, b.refColumn>>

\* both passes of phase 1 are over, bestFwd and bestRev hold their results
Phase1Over == pc = "strand"

InsertionCandidate == aboveRowScores[col] - ins

\* C28: at every cell with a positive score that the walk visits, the score
\* equals the match/mismatch candidate (from a predecessor inside the slab or
\* a fresh start), the deletion candidate (from a predecessor inside the slab)
\* or the insertion candidate (from the row above), all recomputed from the
\* stored vertical differences; the assertion of the insertion branch never
\* fails.
C28_BranchCoverage ==
  /\ failed # "insertion branch"
  /\ WalkAtCell =>
       currentRowScores[col] \in {MatchCandidate, DeletionCandidate, InsertionCandidate}

\* the walk stands at a cell that only the insertion candidate explains, so
\* the next step runs the assertion
C28_Witness ==
  /\ WalkAtCell
  /\ currentRowScores[col] = InsertionCandidate
  /\ currentRowScores[col] # MatchCandidate
  /\ currentRowScores[col] # DeletionCandidate
  /\ Len(cigar) >= 1


(***************************************************************************)
(* Safety of the side store fartherColumns                                 *)
(***************************************************************************)
\* the neighbours of vertex k whose column the l loop takes from farther[]
FartherReads(k, nbrs, sign) ==
  {nbrs[m] : m \in {n \in 1 .. Len(nbrs) : sign * (k - nbrs[n]) >= blockWidth}}

\* every such neighbour is marked in the table P of the pass, has a column in
\* the side store, and that column holds its cells of the current row block
FartherReadsSafe(kernel, P, k, nbrs, sign) ==
  \A x \in FartherReads(k, nbrs, sign) :
    /\ P.withLongHop[x]
    /\ x \in DOMAIN fartherColumns
    /\ \A l \in 0 .. (blockHeight - 1) :
         cellOf.farther[x][l] = <<kernel, batch_i, row_j + l, x>>

\* C29: in both vector kernels, a neighbour x whose column is read from
\* farther[x] (hop of at least blockWidth) is marked long in the table of that
\* pass, so its column is allocated and was written earlier in the same row
\* block; the forward table marks exactly the sources of the in-edges (u,v)
\* with v - u >= blockWidth.
C29_SideStoreSafety ==
  /\ (vpc = "fwd_col" /\ vertex_k < graph.numVertices) =>
       FartherReadsSafe("fwd", P1, vertex_k, adjcny_in(graph, vertex_k), 1)
  /\ (vpc = "rev_col" /\ vertex_k >= 0) =>
       FartherReadsSafe("rev", P1R, vertex_k, adjcny_out(graph, vertex_k), -1)
  /\ vpc \in {"fwd_batch", "fwd_block", "fwd_col"} =>
       \A u \in Vertices(graph) :
          P1.withLongHop[u] <=> \E e \in graph.edges : e[1] = u /\ e[2] - u >= blockWidth

\* the reverse kernel, in the second row block of a batch, about to compute
\* a vertex with an out-neighbour at least blockWidth away
C29_Witness ==
  /\ vpc = "rev_col"
  /\ row_j = blockHeight
  /\ vertex_k \in Vertices(graph)
  /\ FartherReads(vertex_k, adjcny_out(graph, vertex_k), -1) # {}


(***************************************************************************)
(* The shape of the CIGAR                                                  *)
(***************************************************************************)
\* the walk is over, the edit string is not yet reversed and compacted
WalkOver == pc = "compact"

====
